---- MODULE Spec2Model ----
(***************************************************************************)
(* Warehouse Manager: the SQLite-backed inventory store (database.py) and  *)
(* the rule-based categorizer (categorizer.py).                            *)
(*                                                                         *)
(* The store is one record `db` holding the tables the lifecycle           *)
(* operations touch.  Every Database method is a pure operator from a      *)
(* store to its possible results; the actions of Spec call one method per  *)
(* step on a single connection, as the GUI does.  SpecConc runs the        *)
(* assignment methods on two connections, one SQL statement per step.      *)
(* SpecCat teaches aliases and calls guess_category.  SpecSweep runs the   *)
(* background batch_autocategorize beside the edits of the main            *)
(* connection; SpecUsers is the Users tab; SpecLife, SpecSerials,          *)
(* SpecStock and SpecHistory call the serial operations on small stores.   *)
(***************************************************************************)
EXTENDS Integers, Sequences, FiniteSets, TLC

\* SQL NULL / Python None
NULL == "NULL"

\* ---------------------------------------------------------------------
\* Bounds of the model

\* customer ids that add_customer may create
CustomerIds == {"C001", "C002"}
\* a customer id that is never added (assignments to it violate the foreign key)
UnknownCustomer == "C999"
\* serial strings the callers type in
SerialIds == {"S001", "S002"}
\* longest serial list handed to a batch operation
MaxBatch == 2
\* most rows ever inserted in materials
MaxMaterials == 1
\* most rows ever inserted in assignments (AUTOINCREMENT never reuses an id)
MaxAssignments == 1
\* most rows inserted in assignments while two connections are open
MaxConcAssignments == 2
\* most methods called on one connection while two connections are open
MaxConcCalls == 2
\* last calendar day date('now') can return
MaxDay == 1

\* the days date('now') may return when a call is made
Days == 1..MaxDay

\* the serial lists of the batch operations, duplicates allowed
BatchLists == UNION {[1..n -> SerialIds] : n \in 0..MaxBatch}

\* the (name, model) add_material is called with (smoke_test.py)
MaterialTexts == { [name |-> "Camera 4MP", model |-> "DS-2CD2343G2-I"] }

VARIABLES
  db,      \* the committed content of the SQLite file
  call,    \* the last Database method called on the connection and its outcome
  sess,    \* per connection: the method it runs, its place in it, its open transaction
  guess,   \* the last material guess_category was called with and what it returned
  schema,  \* the committed schema of the file: sqlite_master, schema_version, users
  boot     \* the Database being constructed (or in use) and its place in _ensure_schema

vars == <<db, call, sess, guess, schema, boot>>

\* ---------------------------------------------------------------------
\* Tables (Database._migration_1)

\* a row of serial_numbers; the key `serial` is the index of db.serial_numbers
serial_row(material_id) == [material_id |-> material_id, assigned_to |-> NULL]

\* a row of assignments as assign_serial_to_customer inserts it (deleted DEFAULT 0)
assignment_row(id, customer_id, serial, day, material_id, mat) ==
  [id |-> id, customer_id |-> customer_id, serial |-> serial, assigned_date |-> day,
   material_id |-> material_id, material_name |-> mat.name,
   material_model |-> mat.model, deleted |-> 0]

\* a row of materials as add_material inserts it; the key `id` is the index of
\* db.materials.  producer and description default to None, category and
\* auto_category are NULL, auto_confidence DEFAULT 0.0, model_family NULL
material_row(text, is_used) ==
  [name |-> text.name, model |-> text.model,
   producer |-> IF "producer" \in DOMAIN text THEN text.producer ELSE NULL,
   description |-> IF "description" \in DOMAIN text THEN text.description ELSE NULL,
   is_used |-> is_used, category |-> NULL,
   auto_category |-> NULL, auto_confidence |-> 0, model_family |-> NULL]

\* PRAGMA foreign_keys = ON on every connection (first: the pragma left off)
foreign_keys_off == FALSE
foreign_keys == TRUE

\* the store right after the migrations: every table empty
EmptyDb ==
  [customers |-> {}, materials |-> <<>>, serial_numbers |-> <<>>,
   assignments |-> {}, seq |-> 0, category_aliases |-> [t \in {} |-> NULL]]

Restrict(f, S) == [x \in S |-> f[x]]

\* ---------------------------------------------------------------------
\* Customer and material operations

add_customer(D, customer_id) ==
  IF customer_id \in D.customers
  THEN [db |-> D, ret |-> "IntegrityError"]
  ELSE [db |-> [D EXCEPT !.customers = @ \cup {customer_id}], ret |-> "ok"]

add_material(D, text, is_used) ==
  [db |-> [D EXCEPT !.materials = Append(@, material_row(text, is_used))], ret |-> "ok"]

\* ---------------------------------------------------------------------
\* Serials

\* one INSERT INTO serial_numbers: the primary key and the material foreign key
\* raise IntegrityError, which the loop catches and skips
insert_serial_or_replace(D, material_id, serial) ==
  IF foreign_keys /\ material_id \notin DOMAIN D.materials THEN D
  ELSE [D EXCEPT !.serial_numbers =
          [x \in DOMAIN @ \cup {serial} |->
             IF x = serial THEN serial_row(material_id) ELSE @[x]]]
insert_serial(D, material_id, serial) ==
  IF serial \in DOMAIN D.serial_numbers THEN D
  ELSE IF foreign_keys /\ material_id \notin DOMAIN D.materials THEN D
  ELSE [D EXCEPT !.serial_numbers =
          [x \in DOMAIN @ \cup {serial} |->
             IF x = serial THEN serial_row(material_id) ELSE @[x]]]

RECURSIVE add_serials_to_material(_, _, _)
add_serials_to_material(D, material_id, serials) ==
  IF serials = <<>> THEN D
  ELSE add_serials_to_material(insert_serial(D, material_id, Head(serials)),
                               material_id, Tail(serials))

Range(seq) == {seq[i] : i \in DOMAIN seq}

\* DELETE FROM serial_numbers WHERE serial IN (...); assignments.serial is
\* declared REFERENCES serial_numbers(serial) ON DELETE CASCADE
delete_serials(D, serials) ==
  [D EXCEPT !.serial_numbers = Restrict(@, DOMAIN @ \ Range(serials)),
            !.assignments = IF foreign_keys
                            THEN {a \in @ : a.serial \notin Range(serials)}
                            ELSE @]

get_serials_by_material(D, material_id, include_assigned) ==
  {s \in DOMAIN D.serial_numbers :
     /\ D.serial_numbers[s].material_id = material_id
     /\ (include_assigned \/ D.serial_numbers[s].assigned_to = NULL)}

\* as resolve_serials_for_customer, but the query result is tested for presence only
resolve_serials_existence_only(D, serials) ==
  IF serials = <<>> THEN [valid |-> <<>>, invalid |-> <<>>]
  ELSE LET seen == DOMAIN D.serial_numbers \cap Range(serials)
           IsValid(s) == s \in seen
           IsInvalid(s) == ~IsValid(s)
       IN [valid |-> SelectSeq(serials, IsValid), invalid |-> SelectSeq(serials, IsInvalid)]

resolve_serials_for_customer(D, serials) ==
  IF serials = <<>> THEN [valid |-> <<>>, invalid |-> <<>>]
  ELSE LET seen == DOMAIN D.serial_numbers \cap Range(serials)
           IsValid(s) == s \in seen /\ D.serial_numbers[s].assigned_to = NULL
           IsInvalid(s) == ~IsValid(s)
       IN [valid |-> SelectSeq(serials, IsValid), invalid |-> SelectSeq(serials, IsInvalid)]

\* ---------------------------------------------------------------------
\* Assignment operations

\* INSERT INTO assignments (...): AUTOINCREMENT id, deleted DEFAULT 0
insert_assignment(D, customer_id, serial, material_id, day) ==
  [D EXCEPT !.assignments = @ \cup {assignment_row(D.seq + 1, customer_id, serial, day,
                                                   material_id, D.materials[material_id])},
            !.seq = @ + 1]

\* the foreign keys of an assignments row (customer, serial, material)
assignment_fk_ok(D, customer_id, serial, material_id) ==
  \/ ~foreign_keys
  \/ /\ customer_id \in D.customers
     /\ serial \in DOMAIN D.serial_numbers
     /\ material_id \in DOMAIN D.materials

\* UPDATE serial_numbers SET assigned_to=? WHERE serial=?
set_assigned_to(D, serial, customer_id) ==
  IF serial \in DOMAIN D.serial_numbers
  THEN [D EXCEPT !.serial_numbers[serial].assigned_to = customer_id]
  ELSE D

\* as assign_serial_to_customer, but the SELECT lacks "AND assigned_to IS NULL"
assign_serial_unchecked(D, customer_id, serial, day) ==
  IF serial \notin DOMAIN D.serial_numbers
  THEN [db |-> D, ret |-> "ValueError"]
  ELSE LET material_id == D.serial_numbers[serial].material_id IN
       IF ~assignment_fk_ok(D, customer_id, serial, material_id)
       THEN [db |-> D, ret |-> "IntegrityError"]
       ELSE [db |-> set_assigned_to(
                      insert_assignment(D, customer_id, serial, material_id, day),
                      serial, customer_id),
             ret |-> "ok"]

assign_serial_to_customer(D, customer_id, serial, day) ==
  IF ~(serial \in DOMAIN D.serial_numbers /\ D.serial_numbers[serial].assigned_to = NULL)
  THEN [db |-> D, ret |-> "ValueError"]
  ELSE LET material_id == D.serial_numbers[serial].material_id IN
       IF material_id \notin DOMAIN D.materials
       THEN [db |-> D, ret |-> "ValueError"]
       ELSE IF ~assignment_fk_ok(D, customer_id, serial, material_id)
       THEN [db |-> D, ret |-> "IntegrityError"]
       ELSE [db |-> set_assigned_to(
                      insert_assignment(D, customer_id, serial, material_id, day),
                      serial, customer_id),
             ret |-> "ok"]

\* SELECT id FROM assignments WHERE serial=? AND deleted=0
\*   ORDER BY assigned_date DESC LIMIT 1
\* the rows the query may return: SQL leaves the order of equal dates open
unassign_candidates(D, serial) ==
  LET active == {a \in D.assignments : a.serial = serial /\ a.deleted = 0}
  IN {a \in active : \A b \in active : b.assigned_date <= a.assigned_date}

\* DELETE FROM assignments WHERE id=? (force) or
\* UPDATE assignments SET deleted=1 WHERE id=?
mark_assignment_of_every_id(D, force, ids) ==
  [D EXCEPT !.assignments =
     IF force THEN {} ELSE {[a EXCEPT !.deleted = 1] : a \in @}]
mark_assignment(D, force, ids) ==
  [D EXCEPT !.assignments =
     IF force THEN {a \in @ : a.id \notin ids}
     ELSE {IF a.id \in ids THEN [a EXCEPT !.deleted = 1] ELSE a : a \in @}]

\* as unassign_row, but the serial keeps its assigned_to
unassign_row_keeps_pointer(D, serial, force, ids) == mark_assignment(D, force, ids)

\* the two writes of unassign_serial once the row (or none) is selected
unassign_row(D, serial, force, ids) ==
  set_assigned_to(mark_assignment(D, force, ids), serial, NULL)

\* as unassign_serial, but the record is removed whatever force says
unassign_serial_always_purges(D, serial, force) ==
  IF unassign_candidates(D, serial) = {}
  THEN {unassign_row(D, serial, TRUE, {})}
  ELSE {unassign_row(D, serial, TRUE, {a.id}) : a \in unassign_candidates(D, serial)}

\* the stores unassign_serial may leave
unassign_serial(D, serial, force) ==
  IF unassign_candidates(D, serial) = {}
  THEN {unassign_row(D, serial, force, {})}
  ELSE {unassign_row(D, serial, force, {a.id}) : a \in unassign_candidates(D, serial)}

\* as set_is_used, but the flag is left as it is
set_is_used_dropped(D, material_id) == D

\* UPDATE materials SET is_used=1 WHERE id=?
set_is_used(D, material_id) ==
  IF material_id \in DOMAIN D.materials
  THEN [D EXCEPT !.materials[material_id].is_used = 1]
  ELSE D

\* one round of the loop of transfer_serials_to_used
transfer_one_from_any_customer(D, serial, from_customer) ==
  IF serial \notin DOMAIN D.serial_numbers THEN {D}
  ELSE LET assigned_to == D.serial_numbers[serial].assigned_to
           material_id == D.serial_numbers[serial].material_id
           unassigned ==
             IF assigned_to # NULL THEN unassign_serial(D, serial, FALSE) ELSE {D}
       IN {set_is_used(E, material_id) : E \in unassigned}
transfer_one(D, serial, from_customer) ==
  IF serial \notin DOMAIN D.serial_numbers THEN {D}
  ELSE LET assigned_to == D.serial_numbers[serial].assigned_to
           material_id == D.serial_numbers[serial].material_id
           unassigned ==
             IF assigned_to # NULL /\ (from_customer = NULL \/ assigned_to = from_customer)
             THEN unassign_serial(D, serial, FALSE)
             ELSE {D}
       IN {set_is_used(E, material_id) : E \in unassigned}

\* the stores transfer_serials_to_used may leave
RECURSIVE transfer_serials_to_used(_, _, _)
transfer_serials_to_used(D, serials, from_customer) ==
  IF serials = <<>> THEN {D}
  ELSE UNION {transfer_serials_to_used(E, Tail(serials), from_customer) :
                E \in transfer_one(D, Head(serials), from_customer)}

\* ORDER BY a.assigned_date DESC, a.id DESC
RECURSIVE history_sorted(_)
history_sorted(rows) ==
  IF rows = {} THEN <<>>
  ELSE LET first == CHOOSE a \in rows : \A b \in rows :
                       \/ b.assigned_date < a.assigned_date
                       \/ (b.assigned_date = a.assigned_date /\ b.id <= a.id)
       IN <<first>> \o history_sorted(rows \ {first})

\* as get_customer_history, but soft-deleted records are filtered out
get_customer_history_hides_deleted(D, customer_id) ==
  history_sorted({a \in D.assignments : a.customer_id = customer_id /\ a.deleted = 0})
get_customer_history(D, customer_id) ==
  history_sorted({a \in D.assignments : a.customer_id = customer_id})

\* ---------------------------------------------------------------------
\* Schema set-up (Database._ensure_schema and the migrations)

\* the objects the statements of each migration create, in the order the
\* statements run; every statement is CREATE ... IF NOT EXISTS
migration_1 ==
  <<"customers", "materials", "serial_numbers", "assignments", "category_aliases",
    "schema_version",
    "idx_customers_name", "idx_materials_name", "idx_materials_model",
    "idx_materials_auto_category", "idx_serial_numbers_material_id",
    "idx_assignments_customer_id", "idx_assignments_serial">>

\* reserved for v1.3 changes: pass
migration_2 == <<>>

migration_3 == <<"users", "idx_users_role">>

migrations == <<migration_1, migration_2, migration_3>>

\* a new file: sqlite_master is empty
NewFile == [objects |-> {}, schema_version |-> <<>>, users |-> [u \in {} |-> NULL]]

\* CREATE TABLE / CREATE INDEX IF NOT EXISTS name: nothing happens when the
\* name is in sqlite_master; the statement is not part of a transaction (the
\* sqlite3 module opens one only before INSERT/UPDATE/DELETE, and
\* executescript commits first), so it is durable as soon as it has run
create_if_not_exists(S, name) == [S EXCEPT !.objects = @ \cup {name}]

\* SELECT COUNT(*) FROM schema_version
count_schema_version(S) == Len(S.schema_version)

\* INSERT INTO schema_version (version) VALUES (0); commit
insert_schema_version(S) == [S EXCEPT !.schema_version = Append(@, 0)]

\* SELECT version FROM schema_version; fetchone()[0]
get_schema_version(S) == S.schema_version[1]

\* UPDATE schema_version SET version=?; commit (no WHERE: every row)
update_schema_version(S, target_version) ==
  [S EXCEPT !.schema_version = [i \in DOMAIN @ |-> target_version]]

\* ---------------------------------------------------------------------
\* Users (Database user management)

\* PBKDF2-HMAC-SHA256 of the password under the salt, 100000 iterations:
\* a one-way function taken as collision free; the digest is named by its inputs
_hash_password(password, salt) == <<"pbkdf2_hmac_sha256", password, salt>>

\* add_user with the salt os.urandom(16) drew
add_user(S, username, password, role, salt) ==
  IF username \in DOMAIN S.users
  THEN [schema |-> S, ret |-> "IntegrityError"]
  ELSE [schema |->
          [S EXCEPT !.users =
             [u \in DOMAIN @ \cup {username} |->
                IF u = username
                THEN [password_hash |-> _hash_password(password, salt),
                      salt |-> salt, role |-> role]
                ELSE @[u]]],
        ret |-> "ok"]

\* what authenticate_user returns in place of the dict when it fails
None == [username |-> NULL, role |-> NULL]

\* the dict authenticate_user returns, or None
authenticate_user_matches_any_password(S, username, password) ==
  IF username \notin DOMAIN S.users THEN None
  ELSE [username |-> username, role |-> S.users[username].role]
authenticate_user(S, username, password) ==
  IF username \notin DOMAIN S.users THEN None
  ELSE IF _hash_password(password, S.users[username].salt)
            = S.users[username].password_hash
       THEN [username |-> username, role |-> S.users[username].role]
       ELSE None

get_user_role(S, username) ==
  IF username \in DOMAIN S.users THEN S.users[username].role ELSE NULL

\* UPDATE users SET role=? WHERE username=?; commit
update_user_role(S, username, new_role) ==
  IF username \in DOMAIN S.users
  THEN [S EXCEPT !.users[username].role = new_role]
  ELSE S

\* DELETE FROM users WHERE username=?; commit
delete_user(S, username) ==
  [S EXCEPT !.users = [u \in DOMAIN @ \ {username} |-> @[u]]]

\* the file after a start-up that ran to its end on a new file, with the salt
\* the seeding drew
SeededSchema(salt) ==
  add_user([objects |-> {"schema_version"} \cup Range(migration_1) \cup Range(migration_3),
            schema_version |-> <<Len(migrations)>>,
            users |-> [u \in {} |-> NULL]],
           "admin", "admin", "admin1", salt).schema

\* the salts os.urandom(16) may return
Salts == {"a1", "b2"}

\* the store the inventory methods are called on: opened once, migrated, seeded
MigratedSchema == SeededSchema("a1")

\* no Database object exists on the file and nobody is logged in
Closed ==
  [pc |-> "closed", session |-> "none", running |-> FALSE, count |-> 0, version |-> 0,
   target_version |-> 0, statement |-> 0, applied |-> <<>>, opens |-> 0, seeds |-> 0,
   current_username |-> NULL, current_role |-> NULL]

\* the constructor of the main session returned; the ghost fields say one
\* start-up ran all three migrations and seeded the account
Opened ==
  [Closed EXCEPT !.pc = "open", !.session = "main", !.running = TRUE,
                 !.applied = <<1, 2, 3>>, !.opens = 1, !.seeds = 1]

\* ---------------------------------------------------------------------
\* One connection calling the methods one after the other

\* op: the method; serial: the serial of assign/unassign; force: the flag of
\* unassign; ret: "ok" or the exception raised
NoCall == [op |-> "none", serial |-> NULL, force |-> FALSE, ret |-> "ok"]

\* guess_category has not been called
NoGuess == [called |-> FALSE, material |-> NULL, result |-> NULL]

\* the connections open on the same file: the main window's and a second one
\* (another instance of the program, or the background thread's)
Sessions == {1, 2}

\* a connection that runs no method and has no open transaction
\*   pc            where the connection is in the method it runs
\*   op, serial    the method, and the serial its current statement is about
\*   customer      customer_id of assign, from_customer of transfer
\*   serials       the serials still to process
\*   nested        unassign_serial is running inside transfer_serials_to_used
\*   row           assignment_id selected by unassign_serial (0: none)
\*   in_tx, tx     the implicit transaction sqlite3 opened at the first write
\*                 and the store as that transaction sees it
\*   calls         methods called on the connection so far
IdleSession ==
  [pc |-> "idle", op |-> "none", serial |-> NULL, customer |-> NULL, serials |-> <<>>,
   force |-> FALSE, nested |-> FALSE, row |-> 0, material_id |-> 0,
   in_tx |-> FALSE, tx |-> EmptyDb, calls |-> 0]

Init ==
  /\ db = EmptyDb
  /\ call = NoCall
  /\ sess = [i \in Sessions |-> IdleSession]
  /\ guess = NoGuess
  /\ schema = MigratedSchema
  /\ boot = Opened

\* the call returns (or raises) and leaves the store D
Called(c, D) ==
  /\ call' = c
  /\ db' = D
  /\ UNCHANGED <<sess, guess, schema, boot>>

Call_add_customer ==
  \E c \in CustomerIds :
    LET r == add_customer(db, c)
    IN Called([NoCall EXCEPT !.op = "add_customer", !.ret = r.ret], r.db)

Call_add_material ==
  \E t \in MaterialTexts, is_used \in {0, 1} :
    /\ Len(db.materials) < MaxMaterials
    /\ Called([NoCall EXCEPT !.op = "add_material"], add_material(db, t, is_used).db)

Call_add_serials_to_material ==
  \E m \in 1..MaxMaterials, L \in BatchLists :
    Called([NoCall EXCEPT !.op = "add_serials_to_material"],
           add_serials_to_material(db, m, L))

Call_delete_serials ==
  \E L \in BatchLists :
    Called([NoCall EXCEPT !.op = "delete_serials"], delete_serials(db, L))

Call_resolve_serials_for_customer ==
  \E L \in BatchLists :
    Called([NoCall EXCEPT !.op = "resolve_serials_for_customer"], db)

Call_assign_serial_to_customer ==
  \E c \in CustomerIds \cup {UnknownCustomer}, s \in SerialIds, day \in Days :
    LET r == assign_serial_to_customer(db, c, s, day)
    IN /\ r.ret = "ok" => db.seq < MaxAssignments
       /\ Called([NoCall EXCEPT !.op = "assign_serial_to_customer", !.serial = s,
                                !.ret = r.ret], r.db)

Call_unassign_serial ==
  \E s \in SerialIds, force \in BOOLEAN :
    \E D \in unassign_serial(db, s, force) :
      Called([NoCall EXCEPT !.op = "unassign_serial", !.serial = s, !.force = force], D)

Call_transfer_serials_to_used ==
  \E L \in BatchLists, from_customer \in CustomerIds \cup {NULL} :
    \E D \in transfer_serials_to_used(db, L, from_customer) :
      Called([NoCall EXCEPT !.op = "transfer_serials_to_used"], D)

Next ==
  \/ Call_add_customer
  \/ Call_add_material
  \/ Call_add_serials_to_material
  \/ Call_delete_serials
  \/ Call_resolve_serials_for_customer
  \/ Call_assign_serial_to_customer
  \/ Call_unassign_serial
  \/ Call_transfer_serials_to_used

Spec == Init /\ [][Next]_vars

\* ---------------------------------------------------------------------
\* Two connections on the same file, one SQL statement per step.
\*
\* sqlite3 (default isolation_level) runs a SELECT outside any transaction
\* and opens a transaction before the first INSERT/UPDATE/DELETE; commit()
\* publishes its writes.  SQLite lets one connection write at a time: a write
\* of another connection waits, and raises OperationalError ("database is
\* locked") when the wait times out.  Uncommitted writes are seen by their own
\* connection only and are rolled back when its process dies.

\* the store after the set-up of smoke_test.py: customers, a material, its serials
ConcStartDb ==
  add_serials_to_material(
    add_material(add_customer(add_customer(EmptyDb, "C001").db, "C002").db,
                 CHOOSE t \in MaterialTexts : TRUE, 0).db,
    1, <<"S001", "S002">>)

InitConc ==
  /\ db = ConcStartDb
  /\ call = NoCall
  /\ sess = [i \in Sessions |-> IdleSession]
  /\ guess = NoGuess
  /\ schema = MigratedSchema
  /\ boot = Opened

\* what a SELECT of connection i reads
View(i) == IF sess[i].in_tx THEN sess[i].tx ELSE db

\* connection i may write: it holds the write lock or nobody does
CanWrite(i) == sess[i].in_tx \/ \A j \in Sessions \ {i} : ~sess[j].in_tx

\* connection i moves on, the rest of the system stays
Step(i, new) ==
  /\ sess' = [sess EXCEPT ![i] = new]
  /\ UNCHANGED <<db, call, guess, schema, boot>>

\* the method is called on connection i
Begin(i, op, pc, customer, serial, serials, force, material_id) ==
  /\ sess[i].pc = "idle"
  /\ sess[i].calls < MaxConcCalls
  /\ Step(i, [sess[i] EXCEPT !.calls = @ + 1, !.pc = pc, !.op = op, !.customer = customer,
                             !.serial = serial, !.serials = serials, !.force = force,
                             !.nested = FALSE, !.row = 0, !.material_id = material_id])

\* the method returns or raises: its locals are gone, an open transaction stays
Returned(S) == [IdleSession EXCEPT !.in_tx = S.in_tx, !.tx = S.tx, !.calls = S.calls]

\* a write statement of connection i, run in its transaction, leaves it at T
Written(i, T, pc) == [sess[i] EXCEPT !.in_tx = TRUE, !.tx = T, !.pc = pc]

\* assign calls that have not reached their INSERT yet
AssignsInFlight ==
  Cardinality({j \in Sessions : sess[j].pc \in {"assign_select", "assign_insert"}})

\* the insert counters the connections see
SeqInFlight ==
  LET seqs == {View(j).seq : j \in Sessions}
  IN CHOOSE n \in seqs : \A m \in seqs : m <= n

Conc_call_assign_serial_to_customer ==
  \E i \in Sessions, c \in CustomerIds, s \in SerialIds :
    /\ SeqInFlight + AssignsInFlight < MaxConcAssignments
    /\ Begin(i, "assign_serial_to_customer", "assign_select", c, s, <<>>, FALSE, 0)

\* SELECT ... FROM serial_numbers WHERE serial=? AND assigned_to IS NULL, then
\* SELECT name, model FROM materials WHERE id=?
Conc_assign_select ==
  \E i \in Sessions :
    /\ sess[i].pc = "assign_select"
    /\ LET V == View(i)
           s == sess[i].serial
           S == sess[i]
       IN IF ~(s \in DOMAIN V.serial_numbers /\ V.serial_numbers[s].assigned_to = NULL)
          THEN Step(i, Returned(S))
          ELSE IF V.serial_numbers[s].material_id \notin DOMAIN V.materials
          THEN Step(i, Returned(S))
          ELSE Step(i, [S EXCEPT !.pc = "assign_insert",
                                 !.material_id = V.serial_numbers[s].material_id])

\* INSERT INTO assignments: a foreign key violation raises IntegrityError and
\* leaves open the transaction the statement began
Conc_assign_insert ==
  \E i \in Sessions, day \in Days :
    /\ sess[i].pc = "assign_insert"
    /\ CanWrite(i)
    /\ LET T == View(i)
           S == sess[i]
       IN IF ~assignment_fk_ok(T, S.customer, S.serial, S.material_id)
          THEN Step(i, Returned([S EXCEPT !.in_tx = TRUE, !.tx = T]))
          ELSE Step(i, Written(i, insert_assignment(T, S.customer, S.serial,
                                                    S.material_id, day),
                               "assign_update"))

\* UPDATE serial_numbers SET assigned_to=? WHERE serial=?
Conc_assign_update ==
  \E i \in Sessions :
    /\ sess[i].pc = "assign_update"
    /\ Step(i, Written(i, set_assigned_to(View(i), sess[i].serial, sess[i].customer),
                       "commit"))

Conc_call_unassign_serial ==
  \E i \in Sessions, s \in SerialIds, force \in BOOLEAN :
    Begin(i, "unassign_serial", "unassign_select", NULL, s, <<>>, force, 0)

\* SELECT id FROM assignments WHERE serial=? AND deleted=0 ORDER BY ... LIMIT 1
Conc_unassign_select ==
  \E i \in Sessions :
    /\ sess[i].pc = "unassign_select"
    /\ LET rows == unassign_candidates(View(i), sess[i].serial)
       IN IF rows = {}
          THEN Step(i, [sess[i] EXCEPT !.row = 0, !.pc = "unassign_clear"])
          ELSE \E a \in rows : Step(i, [sess[i] EXCEPT !.row = a.id, !.pc = "unassign_mark"])

\* DELETE FROM assignments WHERE id=? / UPDATE assignments SET deleted=1 WHERE id=?
Conc_unassign_mark ==
  \E i \in Sessions :
    /\ sess[i].pc = "unassign_mark"
    /\ CanWrite(i)
    /\ Step(i, Written(i, mark_assignment(View(i), sess[i].force, {sess[i].row}),
                       "unassign_clear"))

\* UPDATE serial_numbers SET assigned_to=NULL WHERE serial=?
Conc_unassign_clear ==
  \E i \in Sessions :
    /\ sess[i].pc = "unassign_clear"
    /\ CanWrite(i)
    /\ Step(i, Written(i, set_assigned_to(View(i), sess[i].serial, NULL), "commit"))

Conc_call_transfer_serials_to_used ==
  \E i \in Sessions, L \in BatchLists \ {<<>>}, from_customer \in CustomerIds \cup {NULL} :
    Begin(i, "transfer_serials_to_used", "transfer_select", from_customer, NULL, L, FALSE, 0)

\* the head of the loop: SELECT assigned_to, material_id FROM serial_numbers
\* WHERE serial=?; after the last serial, the closing commit
Conc_transfer_select ==
  \E i \in Sessions :
    /\ sess[i].pc = "transfer_select"
    /\ LET S == sess[i]
           V == View(i)
       IN IF S.serials = <<>>
          THEN Step(i, [S EXCEPT !.pc = "commit"])
          ELSE LET s == Head(S.serials) IN
               IF s \notin DOMAIN V.serial_numbers
               THEN Step(i, [S EXCEPT !.serials = Tail(@)])
               ELSE LET assigned_to == V.serial_numbers[s].assigned_to
                        found == [S EXCEPT !.serial = s,
                                           !.material_id = V.serial_numbers[s].material_id]
                    IN IF assigned_to # NULL
                          /\ (S.customer = NULL \/ assigned_to = S.customer)
                       THEN Step(i, [found EXCEPT !.pc = "unassign_select",
                                                  !.nested = TRUE, !.force = FALSE])
                       ELSE Step(i, [found EXCEPT !.pc = "transfer_set_used"])

\* UPDATE materials SET is_used=1 WHERE id=? (and the serial's last_modified)
Conc_transfer_set_used ==
  \E i \in Sessions :
    /\ sess[i].pc = "transfer_set_used"
    /\ CanWrite(i)
    /\ Step(i, [Written(i, set_is_used(View(i), sess[i].material_id), "transfer_select")
                  EXCEPT !.serials = Tail(@), !.row = 0])

\* self.conn.commit(): the writes of the transaction become the committed
\* store; unassign_serial called by transfer_serials_to_used returns into the loop
Conc_commit ==
  \E i \in Sessions :
    /\ sess[i].pc = "commit"
    /\ db' = View(i)
    /\ sess' = [sess EXCEPT ![i] =
                  IF sess[i].nested
                  THEN [sess[i] EXCEPT !.in_tx = FALSE, !.tx = EmptyDb, !.nested = FALSE,
                                       !.pc = "transfer_set_used"]
                  ELSE Returned([sess[i] EXCEPT !.in_tx = FALSE, !.tx = EmptyDb])]
    /\ UNCHANGED <<call, guess, schema, boot>>

\* the statements that need the write lock
WritePcs ==
  {"assign_insert", "unassign_mark", "unassign_clear", "transfer_set_used"}

\* the busy timeout expires while another connection holds the write lock
Conc_locked ==
  \E i \in Sessions :
    /\ sess[i].pc \in WritePcs
    /\ ~CanWrite(i)
    /\ Step(i, Returned(sess[i]))

\* the process of connection i dies: SQLite rolls its open transaction back
Conc_killed ==
  \E i \in Sessions :
    /\ sess[i].pc # "idle"
    /\ Step(i, Returned([sess[i] EXCEPT !.in_tx = FALSE, !.tx = EmptyDb]))

NextConc ==
  \/ Conc_call_assign_serial_to_customer
  \/ Conc_assign_select
  \/ Conc_assign_insert
  \/ Conc_assign_update
  \/ Conc_call_unassign_serial
  \/ Conc_unassign_select
  \/ Conc_unassign_mark
  \/ Conc_unassign_clear
  \/ Conc_call_transfer_serials_to_used
  \/ Conc_transfer_select
  \/ Conc_transfer_set_used
  \/ Conc_commit
  \/ Conc_locked
  \/ Conc_killed

SpecConc == InitConc /\ [][NextConc]_vars

\* ---------------------------------------------------------------------
\* Texts (categorizer.py works on Python strings; here a text is the sequence
\* of its characters)

\* the characters of the strings the model hands to the categorizer
Chars ==
   "" :> <<>>
  @@ "Camera 4MP" :> <<"C", "a", "m", "e", "r", "a", " ", "4", "M", "P">>
  @@ "DS-2CD2343G2-I" :> <<"D", "S", "-", "2", "C", "D", "2", "3", "4", "3", "G", "2", "-", "I">>
  @@ "IPC Dome" :> <<"I", "P", "C", " ", "D", "o", "m", "e">>
  @@ "NVR4" :> <<"N", "V", "R", "4">>
  @@ "Kamera PoE" :> <<"K", "a", "m", "e", "r", "a", " ", "P", "o", "E">>
  @@ "SG1 Switch" :> <<"S", "G", "1", " ", "S", "w", "i", "t", "c", "h">>
  @@ "κάμερα" :> <<"κ", "ά", "μ", "ε", "ρ", "α">>
  @@ "DVR IPC" :> <<"D", "V", "R", " ", "I", "P", "C">>
  @@ "Camera" :> <<"C", "a", "m", "e", "r", "a">>
  @@ "camera" :> <<"c", "a", "m", "e", "r", "a">>
  @@ "4MP" :> <<"4", "M", "P">>
  @@ "Dome" :> <<"D", "o", "m", "e">>
  @@ "DS-2CD2343" :> <<"D", "S", "-", "2", "C", "D", "2", "3", "4", "3">>

UpperCase ==
  <<"A", "B", "C", "D", "E", "F", "G", "H", "I", "J", "K", "L", "M",
    "N", "O", "P", "Q", "R", "S", "T", "U", "V", "W", "X", "Y", "Z">>

LowerCase ==
  <<"a", "b", "c", "d", "e", "f", "g", "h", "i", "j", "k", "l", "m",
    "n", "o", "p", "q", "r", "s", "t", "u", "v", "w", "x", "y", "z">>

Digits == {"0", "1", "2", "3", "4", "5", "6", "7", "8", "9"}

\* \s: the only white space of the texts is the blank
Whitespace == {" "}

\* [A-Za-z]
Letters == {UpperCase[i] : i \in DOMAIN UpperCase} \cup {LowerCase[i] : i \in DOMAIN LowerCase}

\* \w
IsWord(ch) == ch \in Letters \/ ch \in Digits \/ ch = "_"

\* str.lower() (the texts hold no capital outside A-Z)
lower_char(ch) ==
  IF \E i \in DOMAIN UpperCase : ch = UpperCase[i]
  THEN LowerCase[CHOOSE i \in DOMAIN UpperCase : ch = UpperCase[i]]
  ELSE ch

lower(text) == [i \in DOMAIN text |-> lower_char(text[i])]

\* str(v): None prints as "None"
str(v) == IF v = NULL THEN <<"N", "o", "n", "e">> ELSE Chars[v]

\* material.get(k, "")
Get(material, k) == IF k \in DOMAIN material THEN material[k] ELSE ""

\* " ".join(parts)
RECURSIVE join(_)
join(parts) ==
  IF parts = <<>> THEN <<>>
  ELSE IF Len(parts) = 1 THEN parts[1]
  ELSE parts[1] \o <<" ">> \o join(Tail(parts))

\* text.replace(old, new): every occurrence of old, left to right
RECURSIVE replace(_, _, _)
replace(text, old, new) ==
  IF Len(text) < Len(old) THEN text
  ELSE IF SubSeq(text, 1, Len(old)) = old
  THEN new \o replace(SubSeq(text, Len(old) + 1, Len(text)), old, new)
  ELSE <<Head(text)>> \o replace(Tail(text), old, new)

\* the camera synonyms normalize replaces, in the order of the dict
replacements ==
  <<[k |-> <<"κ", "ά", "μ", "ε", "ρ", "α">>, v |-> <<"c", "a", "m", "e", "r", "a">>],
    [k |-> <<"k", "a", "m", "e", "r", "a">>, v |-> <<"c", "a", "m", "e", "r", "a">>],
    [k |-> <<"κ", "α", "μ", "ε", "ρ", "α">>, v |-> <<"c", "a", "m", "e", "r", "a">>]>>

RECURSIVE replace_all(_, _)
replace_all(text, reps) ==
  IF reps = <<>> THEN text
  ELSE replace_all(replace(text, Head(reps).k, Head(reps).v), Tail(reps))

\* re.sub(r"[^a-z0-9\s]", " ", text)
remove_punctuation(text) ==
  [i \in DOMAIN text |->
     IF \/ \E j \in DOMAIN LowerCase : text[i] = LowerCase[j]
        \/ text[i] \in Digits
        \/ text[i] \in Whitespace
     THEN text[i] ELSE " "]

\* re.sub(r"\s+", " ", text)
RECURSIVE compress_whitespace(_)
compress_whitespace(text) ==
  IF text = <<>> THEN <<>>
  ELSE IF Head(text) \in Whitespace
  THEN IF Len(text) > 1 /\ text[2] \in Whitespace
       THEN compress_whitespace(Tail(text))
       ELSE <<" ">> \o compress_whitespace(Tail(text))
  ELSE <<Head(text)>> \o compress_whitespace(Tail(text))

\* text.strip()
RECURSIVE strip(_)
strip(text) ==
  IF text = <<>> THEN <<>>
  ELSE IF Head(text) \in Whitespace THEN strip(Tail(text))
  ELSE IF text[Len(text)] \in Whitespace THEN strip(SubSeq(text, 1, Len(text) - 1))
  ELSE text

normalize(text) ==
  strip(compress_whitespace(remove_punctuation(replace_all(lower(text), replacements))))

\* text.split(): the runs of non-blank characters, in order
RECURSIVE split(_)
split(text) ==
  IF text = <<>> THEN <<>>
  ELSE IF Head(text) \in Whitespace THEN split(Tail(text))
  ELSE LET stops == {i \in DOMAIN text : text[i] \in Whitespace}
           n == IF stops = {} THEN Len(text)
                ELSE (CHOOSE i \in stops : \A j \in stops : i <= j) - 1
       IN <<SubSeq(text, 1, n)>> \o split(SubSeq(text, n + 1, Len(text)))

\* the length of the longest run of characters of the class, from position p
RECURSIVE run_length(_, _, _)
run_length(text, p, class) ==
  IF p <= Len(text) /\ text[p] \in class THEN 1 + run_length(text, p + 1, class) ELSE 0

\* re.match(r"([A-Za-z]+-\d+[A-Za-z]*)(.*)", model): group 1, else the first
\* blank-separated word of the model, else ""
extract_family(model) ==
  LET letters == run_length(model, 1, Letters)
      dash == letters + 1
      digits == run_length(model, dash + 1, Digits)
      suffix == run_length(model, dash + 1 + digits, Letters)
  IN IF letters >= 1 /\ dash <= Len(model) /\ model[dash] = "-" /\ digits >= 1
     THEN SubSeq(model, 1, dash + digits + suffix)
     ELSE IF model # <<>> THEN Head(split(model)) ELSE <<>>

\* ---------------------------------------------------------------------
\* CATEGORY_PATTERNS: each regular expression is an alternation of literals,
\* a literal optionally preceded or followed by \b, or followed by \d

Alt(lit, lb, rb, digit) == [lit |-> lit, lb |-> lb, rb |-> rb, digit |-> digit]

\* weights in hundredths (0.6 is 60)
CATEGORY_PATTERNS ==
  <<
   [alts |-> <<Alt(<<"D", "S", "-", "2", "C", "D">>, TRUE, FALSE, FALSE)>>,
      ignorecase |-> FALSE, weight |-> 60, cat |-> "Camera", label |-> "ds-2cd"],
   [alts |-> <<Alt(<<"I", "P", "C">>, TRUE, TRUE, FALSE)>>,
      ignorecase |-> TRUE, weight |-> 50, cat |-> "Camera", label |-> "ipc"],
   [alts |-> <<Alt(<<"I", "P", " ", "C", "a", "m">>, TRUE, FALSE, FALSE),
                Alt(<<"I", "P", "C", "a", "m">>, FALSE, FALSE, FALSE),
                Alt(<<"B", "u", "l", "l", "e", "t">>, FALSE, FALSE, FALSE),
                Alt(<<"D", "o", "m", "e">>, FALSE, FALSE, FALSE)>>,
      ignorecase |-> TRUE, weight |-> 40, cat |-> "Camera", label |-> "cam_keyword"],
   [alts |-> <<Alt(<<"N", "V", "R">>, TRUE, FALSE, FALSE)>>,
      ignorecase |-> TRUE, weight |-> 60, cat |-> "NVR", label |-> "nvr"],
   [alts |-> <<Alt(<<"D", "S", "-", "7", "6">>, TRUE, FALSE, FALSE),
                Alt(<<"D", "H", "I", "-", "N", "V", "R">>, FALSE, FALSE, FALSE)>>,
      ignorecase |-> TRUE, weight |-> 50, cat |-> "NVR", label |-> "nvr_prefix"],
   [alts |-> <<Alt(<<"D", "V", "R">>, TRUE, TRUE, FALSE)>>,
      ignorecase |-> TRUE, weight |-> 50, cat |-> "DVR", label |-> "dvr"],
   [alts |-> <<Alt(<<"X", "V", "R">>, TRUE, TRUE, FALSE)>>,
      ignorecase |-> TRUE, weight |-> 50, cat |-> "DVR", label |-> "xvr"],
   [alts |-> <<Alt(<<"P", "o", "E">>, TRUE, TRUE, FALSE)>>,
      ignorecase |-> TRUE, weight |-> 30, cat |-> "Switch", label |-> "poe"],
   [alts |-> <<Alt(<<"S", "w", "i", "t", "c", "h">>, TRUE, FALSE, FALSE),
                Alt(<<"S", "G">>, FALSE, FALSE, TRUE)>>,
      ignorecase |-> TRUE, weight |-> 50, cat |-> "Switch", label |-> "switch"],
   [alts |-> <<Alt(<<"S", "e", "n", "s", "o", "r">>, TRUE, TRUE, FALSE),
                Alt(<<"P", "I", "R">>, FALSE, FALSE, FALSE),
                Alt(<<"M", "o", "t", "i", "o", "n">>, FALSE, FALSE, FALSE)>>,
      ignorecase |-> TRUE, weight |-> 50, cat |-> "Sensor", label |-> "sensor"],
   [alts |-> <<Alt(<<"M", "a", "g", "n", "e", "t", "i", "c">>, TRUE, FALSE, FALSE),
                Alt(<<"D", "o", "o", "r", "C", "o", "n", "t", "a", "c", "t">>, FALSE, FALSE, FALSE)>>,
      ignorecase |-> TRUE, weight |-> 40, cat |-> "Sensor", label |-> "doorcontact"],
   [alts |-> <<Alt(<<"P", "a", "n", "e", "l">>, TRUE, TRUE, FALSE),
                Alt(<<"H", "u", "b">>, FALSE, FALSE, FALSE),
                Alt(<<"C", "o", "n", "t", "r", "o", "l">>, FALSE, FALSE, FALSE),
                Alt(<<"K", "e", "y", "p", "a", "d">>, FALSE, FALSE, FALSE)>>,
      ignorecase |-> TRUE, weight |-> 50, cat |-> "Panel", label |-> "panel"],
   [alts |-> <<Alt(<<"D", "S", "-", "P", "K">>, TRUE, FALSE, FALSE)>>,
      ignorecase |-> TRUE, weight |-> 50, cat |-> "Panel", label |-> "ds-pk"],
   [alts |-> <<Alt(<<"R", "e", "a", "d", "e", "r">>, TRUE, TRUE, FALSE),
                Alt(<<"A", "c", "c", "e", "s", "s">>, FALSE, FALSE, FALSE),
                Alt(<<"L", "o", "c", "k">>, FALSE, FALSE, FALSE),
                Alt(<<"S", "t", "r", "i", "k", "e">>, FALSE, FALSE, FALSE)>>,
      ignorecase |-> TRUE, weight |-> 50, cat |-> "Access Control", label |-> "access"],
   [alts |-> <<Alt(<<"S", "i", "r", "e", "n">>, TRUE, TRUE, FALSE),
                Alt(<<"H", "o", "r", "n">>, FALSE, FALSE, FALSE)>>,
      ignorecase |-> TRUE, weight |-> 50, cat |-> "Siren", label |-> "siren"],
   [alts |-> <<Alt(<<"U", "P", "S">>, TRUE, TRUE, FALSE),
                Alt(<<"P", "S", "U">>, FALSE, FALSE, FALSE),
                Alt(<<"P", "o", "w", "e", "r", " ", "S", "u", "p", "p", "l", "y">>, FALSE, FALSE, FALSE)>>,
      ignorecase |-> TRUE, weight |-> 50, cat |-> "Power", label |-> "power"]
  >>

\* \b at the gap before position p of text
word_boundary(text, p) ==
  LET before == p - 1 \in DOMAIN text /\ IsWord(text[p - 1])
      after == p \in DOMAIN text /\ IsWord(text[p])
  IN before # after

\* the alternative alt matches text at position p
match_at(alt, ignorecase, text, p) ==
  LET n == Len(alt.lit)
  IN /\ p + n - 1 <= Len(text)
     /\ \A i \in 1..n :
          IF ignorecase THEN lower_char(text[p + i - 1]) = lower_char(alt.lit[i])
          ELSE text[p + i - 1] = alt.lit[i]
     /\ alt.lb => word_boundary(text, p)
     /\ alt.rb => word_boundary(text, p + n)
     /\ alt.digit => (p + n \in DOMAIN text /\ text[p + n] \in Digits)

\* pattern.search(text)
search(pattern, text) ==
  \E a \in DOMAIN pattern.alts, p \in 1..(Len(text) + 1) :
    match_at(pattern.alts[a], pattern.ignorecase, text, p)

\* ---------------------------------------------------------------------
\* guess_category

\* weight of an alias token, in hundredths
AliasWeight == 25

\* confidence is capped at 1.0
MaxConfidence == 100

\* scores / evidence: two defaultdicts; order is the insertion order of scores
NoScores == [order |-> <<>>, scores |-> [c \in {} |-> 0], evidence |-> [c \in {} |-> <<>>]]

\* scores[cat] += weight; evidence[cat].append(label)
add_score(acc, cat, weight, label) ==
  IF cat \in DOMAIN acc.scores
  THEN [acc EXCEPT !.scores[cat] = @ + weight, !.evidence[cat] = Append(@, label)]
  ELSE [order |-> Append(acc.order, cat),
        scores |-> [c \in DOMAIN acc.scores \cup {cat} |->
                      IF c = cat THEN weight ELSE acc.scores[c]],
        evidence |-> [c \in DOMAIN acc.evidence \cup {cat} |->
                        IF c = cat THEN <<label>> ELSE acc.evidence[c]]]

\* for pattern, weight, cat, label in CATEGORY_PATTERNS
RECURSIVE score_patterns(_, _, _)
score_patterns(text, patterns, acc) ==
  IF patterns = <<>> THEN acc
  ELSE LET p == Head(patterns)
       IN score_patterns(text, Tail(patterns),
                         IF search(p, text) THEN add_score(acc, p.cat, p.weight, p.label)
                         ELSE acc)

\* SELECT token, category FROM category_aliases, keys lower-cased
get_alias_map(D) ==
  LET rows == D.category_aliases
  IN [k \in {lower(t) : t \in DOMAIN rows} |->
        rows[CHOOSE t \in DOMAIN rows : lower(t) = k]]

\* for token in tokens, tokens taken in the order the set hands them out
RECURSIVE score_aliases(_, _, _)
score_aliases(tokens, alias_map, acc) ==
  IF tokens = <<>> THEN acc
  ELSE LET token == Head(tokens)
       IN score_aliases(Tail(tokens), alias_map,
                        IF token \in DOMAIN alias_map
                        THEN add_score(acc, alias_map[token], AliasWeight, <<"alias:", token>>)
                        ELSE acc)

\* the orders in which a set of tokens may be iterated
TokenOrders(tokens) ==
  {o \in [1..Cardinality(tokens) -> tokens] : {o[i] : i \in DOMAIN o} = tokens}

\* max(scores, key=scores.get): the first key, in insertion order, of highest score
best_category(acc) ==
  acc.order[CHOOSE i \in DOMAIN acc.order :
              /\ \A j \in DOMAIN acc.order : acc.scores[acc.order[j]] <= acc.scores[acc.order[i]]
              /\ \A j \in 1..(i - 1) : acc.scores[acc.order[j]] < acc.scores[acc.order[i]]]

\* min(1.0, score)
confidence_of_unclamped(score) == score
confidence_of(score) == IF score < MaxConfidence THEN score ELSE MaxConfidence

\* the tuple guess_category returns once the scores are complete
guess_result(acc, family) ==
  IF acc.order = <<>>
  THEN [category |-> NULL, confidence |-> 0, family |-> family, evidence |-> <<>>]
  ELSE LET best_cat == best_category(acc)
       IN [category |-> best_cat, confidence |-> confidence_of(acc.scores[best_cat]),
           family |-> family, evidence |-> acc.evidence[best_cat]]

\* the tuples guess_category may return for the material on the store D
guess_category(material, D) ==
  LET text == normalize(join(<<str(Get(material, "name")), str(Get(material, "model")),
                              str(Get(material, "producer")),
                              str(Get(material, "description"))>>))
      family == extract_family(str(Get(material, "model")))
      by_pattern == score_patterns(text, CATEGORY_PATTERNS, NoScores)
      alias_map == get_alias_map(D)
      tokens == {split(text)[i] : i \in DOMAIN split(text)}
  IN {guess_result(score_aliases(o, alias_map, by_pattern), family) : o \in TokenOrders(tokens)}

\* INSERT OR REPLACE INTO category_aliases (token, category) VALUES (token.lower(), category)
learn_category_alias_keeps_case(D, token, category) ==
  LET key == Chars[token]
  IN [D EXCEPT !.category_aliases =
        [t \in DOMAIN @ \cup {key} |-> IF t = key THEN category ELSE @[t]]]
learn_category_alias(D, token, category) ==
  LET key == lower(Chars[token])
  IN [D EXCEPT !.category_aliases =
        [t \in DOMAIN @ \cup {key} |-> IF t = key THEN category ELSE @[t]]]

\* ---------------------------------------------------------------------
\* Materials: listing, editing and categorisation (database.py)

\* text contains sub
contains(text, sub) ==
  \E p \in 1..(Len(text) - Len(sub) + 1) : SubSeq(text, p, p + Len(sub) - 1) = sub

\* get_all_materials: the ids of the rows the SELECT returns.  "is_used = ?"
\* bound to None compares with NULL and is true of no row; a name_query or
\* category that is None or empty adds no clause
get_all_materials(D, is_used, name_query, category) ==
  {id \in DOMAIN D.materials :
     LET row == D.materials[id]
     IN /\ is_used # NULL
        /\ row.is_used = is_used
        /\ (name_query \notin {NULL, ""}) =>
              \/ contains(lower(Chars[row.name]), lower(Chars[name_query]))
              \/ contains(lower(Chars[row.model]), lower(Chars[name_query]))
        /\ (category \notin {NULL, ""}) =>
              (row.category = category \/ row.auto_category = category)}

\* MaterialDetailsWindow._load_material: the row shown, or NULL when the
\* window reports "Material not found"
_load_material(D, material_id) ==
  IF material_id \in get_all_materials(D, NULL, NULL, NULL)
  THEN D.materials[material_id]
  ELSE NULL

\* set_material_fields: UPDATE materials SET k=?, ... WHERE id=?
set_material_fields(D, material_id, fields) ==
  IF material_id \in DOMAIN D.materials /\ DOMAIN fields # {}
  THEN [D EXCEPT !.materials[material_id] =
          [k \in DOMAIN @ |-> IF k \in DOMAIN fields THEN fields[k] ELSE @[k]]]
  ELSE D

\* set_material_category: UPDATE materials SET category=? WHERE id=?
set_material_category(D, material_id, category) ==
  IF material_id \in DOMAIN D.materials
  THEN [D EXCEPT !.materials[material_id].category = category]
  ELSE D

\* UPDATE materials SET auto_category=?, auto_confidence=?, model_family=?,
\* last_modified=... WHERE id=?
set_auto_category_resets_used(D, material_id, cat, conf, family) ==
  IF material_id \in DOMAIN D.materials
  THEN [D EXCEPT !.materials[material_id].auto_category = cat,
                 !.materials[material_id].auto_confidence = conf,
                 !.materials[material_id].model_family = family,
                 !.materials[material_id].is_used = 0]
  ELSE D
set_auto_category(D, material_id, cat, conf, family) ==
  IF material_id \in DOMAIN D.materials
  THEN [D EXCEPT !.materials[material_id].auto_category = cat,
                 !.materials[material_id].auto_confidence = conf,
                 !.materials[material_id].model_family = family]
  ELSE D

\* the dict autocategorize_material returns: the row it selected (with its
\* id) updated with the guess
categorized(material_id, row, r) ==
  [id |-> material_id,
   row |-> [row EXCEPT !.auto_category = r.category, !.auto_confidence = r.confidence,
                       !.model_family = r.family]]

\* the outcomes of autocategorize_material: the store it leaves and the dict
\* it returns, or ValueError when the SELECT finds no row
autocategorize_material(D, material_id) ==
  IF material_id \notin DOMAIN D.materials
  THEN {[db |-> D, ret |-> "ValueError", material |-> NULL]}
  ELSE LET row == D.materials[material_id]
       IN {[db |-> set_auto_category(D, material_id, r.category, r.confidence, r.family),
            ret |-> "ok", material |-> categorized(material_id, row, r)] :
             r \in guess_category(row, D)}

\* the orders in which a SELECT without ORDER BY may return the ids
RowOrders(ids) ==
  {o \in [1..Cardinality(ids) -> ids] : {o[i] : i \in DOMAIN o} = ids}

\* SELECT id FROM materials [WHERE category IS NULL]
select_material_ids(D, only_uncategorized) ==
  {id \in DOMAIN D.materials : ~only_uncategorized \/ D.materials[id].category = NULL}

\* for mid in ids: try: results.append(self.autocategorize_material(mid))
\* except Exception: logged, the loop goes on
RECURSIVE autocategorize_each(_, _, _)
autocategorize_each(D, ids, results) ==
  IF ids = <<>> THEN {[db |-> D, results |-> results]}
  ELSE UNION {autocategorize_each(r.db, Tail(ids),
                                  IF r.ret = "ok" THEN Append(results, r.material)
                                  ELSE results) :
                r \in autocategorize_material(D, Head(ids))}

\* the outcomes of batch_autocategorize on one connection
batch_autocategorize(D, only_uncategorized) ==
  UNION {autocategorize_each(D, o, <<>>) :
           o \in RowOrders(select_material_ids(D, only_uncategorized))}

\* ---------------------------------------------------------------------
\* The categorizer called on a store whose alias table is being taught

\* the dicts guess_category is called with
GuessInputs ==
  MaterialTexts \cup
  { [name |-> "IPC Dome", model |-> "NVR4"],
    [name |-> "Kamera PoE", model |-> "SG1 Switch"],
    [name |-> "DVR IPC", model |-> ""],
    [name |-> "κάμερα"] }

\* the tokens and categories learn_category_alias is called with
AliasTokens == {"Camera", "camera", "4MP", "Dome"}

AliasCategories == {"Camera", "NVR"}

InitCat ==
  /\ db = EmptyDb
  /\ call = NoCall
  /\ sess = [i \in Sessions |-> IdleSession]
  /\ guess = NoGuess
  /\ schema = MigratedSchema
  /\ boot = Opened

Call_learn_category_alias ==
  \E token \in AliasTokens, category \in AliasCategories :
    /\ db' = learn_category_alias(db, token, category)
    /\ call' = [op |-> "learn_category_alias", token |-> token, category |-> category]
    /\ UNCHANGED <<sess, guess, schema, boot>>

Call_guess_category ==
  \E material \in GuessInputs :
    \E r \in guess_category(material, db) :
      /\ guess' = [called |-> TRUE, material |-> material, result |-> r]
      /\ UNCHANGED <<db, call, sess, schema, boot>>

NextCat ==
  \/ Call_learn_category_alias
  \/ Call_guess_category

SpecCat == InitCat /\ [][NextCat]_vars

\* ---------------------------------------------------------------------
\* Start-ups: Database(path) is constructed by the main session when the
\* application starts and by its background thread once the window is built;
\* _ensure_schema runs one statement per step, and the process may end
\* between any two of them

\* how many times a Database is constructed on the file
MaxOpens == 3

\* the user names and roles the user management methods are called with
Usernames == {"admin", "bob"}
BootRoles == {"admin1", "viewer"}

InitBoot ==
  /\ db = EmptyDb
  /\ call = NoCall
  /\ sess = [i \in Sessions |-> IdleSession]
  /\ guess = NoGuess
  /\ schema = NewFile
  /\ boot = Closed

\* a step of the start-up or of the user management leaves the file S
Booted(S, B) ==
  /\ schema' = S
  /\ boot' = B
  /\ UNCHANGED <<db, call, sess, guess>>

\* _ensure_schema is entered with fresh locals
Entered(session) ==
  [boot EXCEPT !.pc = "create_schema_version", !.session = session, !.count = 0,
               !.version = 0, !.target_version = 0, !.statement = 0,
               !.applied = <<>>, !.opens = @ + 1]

\* the application is started: Database(path) in the main session
Open_main ==
  /\ boot.pc = "closed"
  /\ boot.opens < MaxOpens
  /\ Booted(schema, Entered("main"))

\* App._autocategorize_background: db2 = DBClass(self.db.path), once per run
Open_background ==
  /\ boot.pc = "open"
  /\ boot.session = "main"
  /\ boot.opens < MaxOpens
  /\ Booted(schema, Entered("background"))

\* CREATE TABLE IF NOT EXISTS schema_version
Boot_create_schema_version ==
  /\ boot.pc = "create_schema_version"
  /\ Booted(create_if_not_exists(schema, "schema_version"), [boot EXCEPT !.pc = "count"])

\* SELECT COUNT(*) FROM schema_version; if count == 0
Boot_count_always_inserts ==
  /\ boot.pc = "count"
  /\ Booted(schema, [boot EXCEPT !.count = count_schema_version(schema),
                                 !.pc = "insert_schema_version"])
Boot_count ==
  /\ boot.pc = "count"
  /\ Booted(schema, [boot EXCEPT !.count = count_schema_version(schema),
                                 !.pc = IF count_schema_version(schema) = 0
                                        THEN "insert_schema_version"
                                        ELSE "get_schema_version"])

\* INSERT INTO schema_version (version) VALUES (0); commit
Boot_insert_schema_version ==
  /\ boot.pc = "insert_schema_version"
  /\ Booted(insert_schema_version(schema), [boot EXCEPT !.pc = "get_schema_version"])

\* version = self.get_schema_version(); the loop starts at target 1
Boot_get_schema_version ==
  /\ boot.pc = "get_schema_version"
  /\ Booted(schema, [boot EXCEPT !.version = get_schema_version(schema),
                                 !.target_version = 1, !.pc = "for"])

\* for target_version, migration in enumerate(migrations, start=1):
\*     if version < target_version: migration()
Boot_for_applies_stored_target ==
  /\ boot.pc = "for"
  /\ Booted(schema,
       IF boot.target_version > Len(migrations)
       THEN [boot EXCEPT !.pc = "ensure_default_admin_user"]
       ELSE IF boot.version <= boot.target_version
            THEN [boot EXCEPT !.pc = "migration", !.statement = 1,
                              !.applied = Append(@, boot.target_version)]
            ELSE [boot EXCEPT !.target_version = @ + 1])
Boot_for ==
  /\ boot.pc = "for"
  /\ Booted(schema,
       IF boot.target_version > Len(migrations)
       THEN [boot EXCEPT !.pc = "ensure_default_admin_user"]
       ELSE IF boot.version < boot.target_version
            THEN [boot EXCEPT !.pc = "migration", !.statement = 1,
                              !.applied = Append(@, boot.target_version)]
            ELSE [boot EXCEPT !.target_version = @ + 1])

\* the next statement of the migration (executescript / cur.execute)
Boot_migration ==
  /\ boot.pc = "migration"
  /\ LET script == migrations[boot.target_version] IN
       IF boot.statement > Len(script)
       THEN Booted(schema, [boot EXCEPT !.pc = "update_schema_version"])
       ELSE Booted(create_if_not_exists(schema, script[boot.statement]),
                   [boot EXCEPT !.statement = @ + 1])

\* UPDATE schema_version SET version=target_version; commit
Boot_update_schema_version ==
  /\ boot.pc = "update_schema_version"
  /\ Booted(update_schema_version(schema, boot.target_version),
            [boot EXCEPT !.target_version = @ + 1, !.pc = "for"])

\* the constructor returns; the application of the main session runs
Constructed == [boot EXCEPT !.pc = "open", !.running = TRUE]

\* _ensure_default_admin_user: the users table exists? SELECT COUNT(*) FROM users
Boot_ensure_default_admin_user ==
  /\ boot.pc = "ensure_default_admin_user"
  /\ Booted(schema,
       IF "users" \in schema.objects /\ DOMAIN schema.users = {}
       THEN [boot EXCEPT !.pc = "add_default_admin_user"]
       ELSE Constructed)

\* self.add_user('admin', 'admin', 'admin1'); an exception is logged by _ensure_schema
Boot_add_default_admin_user ==
  /\ boot.pc = "add_default_admin_user"
  /\ \E salt \in Salts :
       LET r == add_user(schema, "admin", "admin", "admin1", salt) IN
         Booted(r.schema,
                [Constructed EXCEPT !.seeds = IF r.ret = "ok" THEN @ + 1 ELSE @])

\* the process ends: the window is closed, or the process is killed or fails
\* in the middle of the start-up; what is committed stays in the file
Exit ==
  /\ boot.pc # "closed"
  /\ Booted(schema, [Closed EXCEPT !.opens = boot.opens, !.seeds = boot.seeds])

\* the user management methods, called while the application runs
Call_add_user ==
  \E username \in Usernames, role \in BootRoles, salt \in Salts :
    /\ boot.running
    /\ Booted(add_user(schema, username, "admin", role, salt).schema,
              boot)

Call_update_user_role ==
  \E username \in Usernames, new_role \in BootRoles :
    /\ boot.running
    /\ Booted(update_user_role(schema, username, new_role), boot)

Call_delete_user ==
  \E username \in Usernames :
    /\ boot.running
    /\ Booted(delete_user(schema, username), boot)

NextBoot ==
  \/ Open_main
  \/ Open_background
  \/ Boot_create_schema_version
  \/ Boot_count
  \/ Boot_insert_schema_version
  \/ Boot_get_schema_version
  \/ Boot_for
  \/ Boot_migration
  \/ Boot_update_schema_version
  \/ Boot_ensure_default_admin_user
  \/ Boot_add_default_admin_user
  \/ Exit
  \/ Call_add_user
  \/ Call_update_user_role
  \/ Call_delete_user

SpecBoot == InitBoot /\ [][NextBoot]_vars

\* ---------------------------------------------------------------------
\* Login and user management (login_gui.py, user_management_gui.py)

\* higher numbers are higher privileges
ROLE_LEVELS ==
  [r \in {"viewer", "operator", "admin3", "admin2", "admin1"} |->
     CASE r = "viewer" -> 0
       [] r = "operator" -> 1
       [] r = "admin3" -> 2
       [] r = "admin2" -> 3
       [] r = "admin1" -> 4]

ALL_ROLES == <<"viewer", "operator", "admin3", "admin2", "admin1">>

\* ROLE_LEVELS.get(role, -1)
_role_level(role) == IF role \in DOMAIN ROLE_LEVELS THEN ROLE_LEVELS[role] ELSE -1

\* UsersTab._can_manage_role for a tab built with current_role
_can_manage_role_or_equal(current_role, target_role) ==
  _role_level(target_role) <= _role_level(current_role)
_can_manage_role(current_role, target_role) ==
  _role_level(target_role) < _role_level(current_role)

\* the roles _add_user offers
_allowed_new_roles(current_role) ==
  {r \in Range(ALL_ROLES) :
     current_role = "admin1" \/ _role_level(r) < _role_level(current_role)}

\* the roles _change_role offers
allowed_roles_up_to_own(current_role) ==
  {r \in Range(ALL_ROLES) : _role_level(r) <= _role_level(current_role)}
allowed_roles(current_role) ==
  IF current_role = "admin1" THEN Range(ALL_ROLES)
  ELSE {r \in Range(ALL_ROLES) : _role_level(r) < _role_level(current_role)}

\* the names and passwords typed into the dialogs
LoginNames == Usernames \cup {"carol"}
Passwords == {"admin", "pw"}

\* the roles given to accounts in the runs explored
TabRoles == {"viewer", "admin3", "admin2", "admin1"}

\* what the last dialog did: op, the user it was about and the role the list
\* showed for it, the user and role of the session, and the outcome
NoDialog ==
  [op |-> "none", username |-> NULL, role |-> NULL, password |-> NULL,
   current_username |-> NULL, current_role |-> NULL, auth |-> None, ret |-> "none"]

InitUsers ==
  /\ db = EmptyDb
  /\ call = NoDialog
  /\ sess = [i \in Sessions |-> IdleSession]
  /\ guess = NoGuess
  /\ schema \in {SeededSchema(salt) : salt \in Salts}
  /\ boot = Opened

\* a dialog ends: the file is S, the session B, the outcome c
Dialog(c, S, B) ==
  /\ call' = c
  /\ schema' = S
  /\ boot' = B
  /\ UNCHANGED <<db, sess, guess>>

LoggedIn == boot.current_username # NULL

\* LoginWindow._do_login: on success the main window is built for the
\* username and role returned
LoginWindow_do_login ==
  \E username \in LoginNames, password \in Passwords :
    /\ ~LoggedIn
    /\ LET auth == authenticate_user(schema, username, password) IN
         Dialog([NoDialog EXCEPT !.op = "_do_login", !.username = username,
                                 !.password = password, !.auth = auth,
                                 !.ret = IF auth = None THEN "failed" ELSE "ok"],
                schema,
                IF auth = None THEN boot
                ELSE [boot EXCEPT !.current_username = auth.username,
                                  !.current_role = auth.role])

\* LoginWindow._do_signup: a new account with the role viewer
LoginWindow_do_signup ==
  \E username \in LoginNames, password \in Passwords, salt \in Salts :
    /\ ~LoggedIn
    /\ IF username \in DOMAIN schema.users
       THEN Dialog([NoDialog EXCEPT !.op = "_do_signup", !.username = username,
                                    !.ret = "taken"], schema, boot)
       ELSE Dialog([NoDialog EXCEPT !.op = "_do_signup", !.username = username,
                                    !.role = "viewer", !.ret = "created"],
                   add_user(schema, username, password, "viewer", salt).schema, boot)

\* the application is closed and started again: the login window is shown
Logout ==
  /\ LoggedIn
  /\ Dialog(NoDialog, schema, [boot EXCEPT !.current_username = NULL, !.current_role = NULL])

\* the Users tab exists for the roles starting with admin
HasUsersTab ==
  LoggedIn /\ boot.current_role \in {"admin1", "admin2", "admin3"}

\* the outcome record of a dialog of the Users tab about the listed user
TabDialog(op, username, ret) ==
  [NoDialog EXCEPT !.op = op, !.username = username,
                   !.role = get_user_role(schema, username),
                   !.current_username = boot.current_username,
                   !.current_role = boot.current_role, !.ret = ret]

UsersTab_add_user ==
  \E username \in LoginNames, password \in Passwords, role \in TabRoles, salt \in Salts :
    /\ HasUsersTab
    /\ IF _allowed_new_roles(boot.current_role) = {}
       THEN Dialog(TabDialog("_add_user", username, "denied"), schema, boot)
       ELSE IF username \in DOMAIN schema.users
       THEN Dialog(TabDialog("_add_user", username, "exists"), schema, boot)
       ELSE /\ role \in _allowed_new_roles(boot.current_role)
            /\ Dialog(TabDialog("_add_user", username, "created"),
                      add_user(schema, username, password, role, salt).schema, boot)

\* UsersTab._change_role on the selected row of the list
UsersTab_change_role ==
  \E username \in DOMAIN schema.users, new_role \in TabRoles :
    /\ HasUsersTab
    /\ IF username = boot.current_username
       THEN Dialog(TabDialog("_change_role", username, "own"), schema, boot)
       ELSE IF ~_can_manage_role(boot.current_role, get_user_role(schema, username))
       THEN Dialog(TabDialog("_change_role", username, "denied"), schema, boot)
       ELSE /\ new_role \in allowed_roles(boot.current_role)
            /\ IF new_role = get_user_role(schema, username)
               THEN Dialog(TabDialog("_change_role", username, "unchanged"), schema, boot)
               ELSE Dialog(TabDialog("_change_role", username, "updated"),
                           update_user_role(schema, username, new_role), boot)

\* UsersTab._delete_user on the selected row of the list (first: the same
\* with any selected row deleted once confirmed)
UsersTab_delete_user_unguarded ==
  \E username \in DOMAIN schema.users, confirm \in BOOLEAN :
    /\ HasUsersTab
    /\ IF ~confirm
       THEN Dialog(TabDialog("_delete_user", username, "cancelled"), schema, boot)
       ELSE Dialog(TabDialog("_delete_user", username, "deleted"),
                   delete_user(schema, username), boot)
UsersTab_delete_user ==
  \E username \in DOMAIN schema.users, confirm \in BOOLEAN :
    /\ HasUsersTab
    /\ IF username = boot.current_username
       THEN Dialog(TabDialog("_delete_user", username, "own"), schema, boot)
       ELSE IF ~_can_manage_role(boot.current_role, get_user_role(schema, username))
       THEN Dialog(TabDialog("_delete_user", username, "denied"), schema, boot)
       ELSE IF ~confirm
       THEN Dialog(TabDialog("_delete_user", username, "cancelled"), schema, boot)
       ELSE Dialog(TabDialog("_delete_user", username, "deleted"),
                   delete_user(schema, username), boot)

NextUsers ==
  \/ LoginWindow_do_login
  \/ LoginWindow_do_signup
  \/ Logout
  \/ UsersTab_add_user
  \/ UsersTab_change_role
  \/ UsersTab_delete_user

SpecUsers == InitUsers /\ [][NextUsers]_vars

\* ---------------------------------------------------------------------
\* The material details window on a store that holds stock: the selected
\* serials are assigned, returned or moved to the used stock

\* both serials are in stock, or S002 has been deleted again
InitStock ==
  /\ db \in {ConcStartDb, delete_serials(ConcStartDb, <<"S002">>)}
  /\ call = NoCall
  /\ sess = [i \in Sessions |-> IdleSession]
  /\ guess = NoGuess
  /\ schema = MigratedSchema
  /\ boot = Opened

\* as Call_transfer_serials_to_used, the arguments kept with the outcome
Stock_transfer_serials_to_used ==
  \E L \in BatchLists, from_customer \in CustomerIds \cup {NULL} :
    \E D \in transfer_serials_to_used(db, L, from_customer) :
      Called([op |-> "transfer_serials_to_used", serials |-> L,
              from_customer |-> from_customer, ret |-> "ok"], D)

NextStock ==
  \/ Call_assign_serial_to_customer
  \/ Call_unassign_serial
  \/ Stock_transfer_serials_to_used

SpecStock == InitStock /\ [][NextStock]_vars

\* ---------------------------------------------------------------------
\* The lifecycle of the serials of a material that is also categorised

\* the ids autocategorize_material is called with: the material and an id no
\* material has
LifeMaterialIds == {1, 2}

\* the (name, model) typed into the add-material dialog; producer and
\* description are left empty
DomeText == [name |-> "IPC Dome", model |-> "NVR4"]

\* two customers, the material and its two serials
LifeStartDb ==
  add_serials_to_material(
    add_material(add_customer(add_customer(EmptyDb, "C001").db, "C002").db,
                 DomeText, 0).db,
    1, <<"S001", "S002">>)

InitLife ==
  /\ db = LifeStartDb
  /\ call = NoCall
  /\ sess = [i \in Sessions |-> IdleSession]
  /\ guess = NoGuess
  /\ schema = MigratedSchema
  /\ boot = Opened

Life_autocategorize_material ==
  \E m \in LifeMaterialIds :
    \E r \in autocategorize_material(db, m) :
      Called([NoCall EXCEPT !.op = "autocategorize_material", !.ret = r.ret], r.db)

Life_batch_autocategorize ==
  \E only_uncategorized \in BOOLEAN :
    \E r \in batch_autocategorize(db, only_uncategorized) :
      Called([NoCall EXCEPT !.op = "batch_autocategorize"], r.db)

NextLife ==
  \/ Call_add_serials_to_material
  \/ Call_assign_serial_to_customer
  \/ Call_unassign_serial
  \/ Call_transfer_serials_to_used
  \/ Call_delete_serials
  \/ Life_autocategorize_material
  \/ Life_batch_autocategorize

SpecLife == InitLife /\ [][NextLife]_vars

\* ---------------------------------------------------------------------
\* The background sweep: MainWindow starts a thread that opens a connection
\* of its own and runs batch_autocategorize() on it, one SQL statement per
\* step, while the main connection goes on editing.
\*
\* Both connections are in WAL mode: a SELECT reads the committed store, or,
\* inside an open transaction, the snapshot the first read of the transaction
\* took.  The UPDATE of autocategorize_material needs the write lock: it
\* raises OperationalError ("database is locked") when the main connection
\* holds the lock until the busy timeout expires, or at once when another
\* connection has committed since the snapshot was taken.  A failed UPDATE
\* leaves the transaction sqlite3 opened for it open: nothing commits or rolls
\* back in the except clause of batch_autocategorize.

\* most edits made on the main connection while the sweep runs
MaxEdits == 2

Main == 1
Background == 2

\* the (name, model) of the second material
RecorderText == [name |-> "DVR IPC", model |-> "NVR4"]

\* two customers, three materials (the third with a manual category and used),
\* a serial of the first assigned to C001, a serial of the second, one alias
SweepStartDb ==
  LET D1 == add_customer(add_customer(EmptyDb, "C001").db, "C002").db
      D2 == add_material(add_material(add_material(D1, DomeText, 0).db,
                                      RecorderText, 0).db, DomeText, 1).db
      D3 == set_material_category(D2, 3, "Panel")
      D4 == add_serials_to_material(add_serials_to_material(D3, 1, <<"S001">>),
                                    2, <<"S002">>)
      D5 == assign_serial_to_customer(D4, "C001", "S001", 1).db
  IN learn_category_alias(D5, "4MP", "Camera")

\* the fields set_material_fields is called with
SaveFields == {[category |-> "Panel"], [name |-> "DVR IPC"]}

\* the main connection: its open transaction, the store as the transaction
\* sees it, the method that opened it and the material it is about
MainIdle ==
  [in_tx |-> FALSE, tx |-> EmptyDb, op |-> "none", material_id |-> 0, edits |-> 0]

\* the background connection in batch_autocategorize
\*   pc            idle, select_row, guess, update, done
\*   ids           the ids still to visit; selected: the ids the SELECT returned
\*   manual        the materials that had a manual category at that SELECT
\*   row, r        the row autocategorize_material selected and the guess for it
\*   results       the list batch_autocategorize builds
\*   visited       the ids autocategorize_material was called with, in order
\*   failed        the ids whose call raised
\*   in_tx         a failed UPDATE has left its transaction open
\*   snapped, snap the transaction has read: the snapshot it took
\*   stale         another connection has committed since
BackgroundIdle ==
  [pc |-> "idle", ids |-> <<>>, selected |-> {}, manual |-> {}, row |-> NULL, r |-> NULL,
   results |-> <<>>, visited |-> <<>>, failed |-> {},
   in_tx |-> FALSE, snapped |-> FALSE, snap |-> EmptyDb, stale |-> FALSE]

\* the last step: the connection that took it, what it did, on which material
NoStep == [session |-> "none", op |-> "none", material_id |-> 0]

InitSweep ==
  /\ db = SweepStartDb
  /\ call = NoStep
  /\ sess = [i \in Sessions |-> IF i = Main THEN MainIdle ELSE BackgroundIdle]
  /\ guess = NoGuess
  /\ schema = MigratedSchema
  /\ boot = Opened

\* the main connection runs the writes of a method in a new transaction,
\* which leaves the store T; the commit of the method follows
MainWrites(op, material_id, T) ==
  /\ ~sess[Main].in_tx
  /\ sess[Main].edits < MaxEdits
  /\ sess' = [sess EXCEPT ![Main] = [in_tx |-> TRUE, tx |-> T, op |-> op,
                                     material_id |-> material_id, edits |-> @.edits + 1]]
  /\ call' = [session |-> "main", op |-> op, material_id |-> material_id]
  /\ UNCHANGED <<db, guess, schema, boot>>

Main_set_material_fields ==
  \E m \in DOMAIN db.materials, fields \in SaveFields :
    MainWrites("set_material_fields", m, set_material_fields(db, m, fields))

Main_learn_category_alias ==
  \E category \in {"NVR"} :
    MainWrites("learn_category_alias", 0, learn_category_alias(db, "Dome", category))

Main_transfer_serials_to_used ==
  \E T \in transfer_serials_to_used(db, <<"S002">>, NULL) :
    MainWrites("transfer_serials_to_used", 0, T)

\* self.conn.commit() on the main connection: the transaction becomes the
\* committed store, and a snapshot the background connection holds is outdated
Main_commit ==
  /\ sess[Main].in_tx
  /\ db' = sess[Main].tx
  /\ sess' = [sess EXCEPT
                ![Main] = [MainIdle EXCEPT !.edits = sess[Main].edits],
                ![Background].stale = (@ \/ sess[Background].snapped)]
  /\ call' = [session |-> "main", op |-> "commit_" \o sess[Main].op,
              material_id |-> sess[Main].material_id]
  /\ UNCHANGED <<guess, schema, boot>>

\* what a SELECT of the background connection reads
BackgroundView ==
  IF sess[Background].in_tx /\ sess[Background].snapped THEN sess[Background].snap ELSE db

\* the background connection moves on
BackgroundStep(op, material_id, new) ==
  /\ sess' = [sess EXCEPT ![Background] = new]
  /\ call' = [session |-> "background", op |-> op, material_id |-> material_id]
  /\ UNCHANGED <<guess, schema, boot>>

\* a read inside an open transaction takes the snapshot, if none is held
Reading(B) ==
  IF B.in_tx /\ ~B.snapped THEN [B EXCEPT !.snapped = TRUE, !.snap = db, !.stale = FALSE]
  ELSE B

\* the call of autocategorize_material for the head of ids is over
NextMaterial(B) ==
  [B EXCEPT !.visited = Append(@, Head(B.ids)), !.ids = Tail(@),
            !.pc = IF Tail(B.ids) = <<>> THEN "done" ELSE "select_row"]

\* batch_autocategorize(): SELECT id FROM materials WHERE category IS NULL
Sweep_select_ids ==
  /\ sess[Background].pc = "idle"
  /\ \E o \in RowOrders(select_material_ids(db, TRUE)) :
       /\ BackgroundStep("select_ids", 0,
            [sess[Background] EXCEPT
               !.pc = IF o = <<>> THEN "done" ELSE "select_row",
               !.ids = o, !.selected = Range(o),
               !.manual = DOMAIN db.materials \ Range(o)])
       /\ UNCHANGED db

\* autocategorize_material: SELECT * FROM materials WHERE id=?; no row raises
\* ValueError, which the loop catches
Sweep_select_row ==
  /\ sess[Background].pc = "select_row"
  /\ LET B == Reading(sess[Background])
         V == BackgroundView
         mid == Head(B.ids)
     IN IF mid \notin DOMAIN V.materials
        THEN BackgroundStep("select_row", mid, NextMaterial([B EXCEPT !.failed = @ \cup {mid}]))
        ELSE BackgroundStep("select_row", mid,
                            [B EXCEPT !.row = V.materials[mid], !.pc = "guess"])
  /\ UNCHANGED db

\* guess_category(material, self): SELECT token, category FROM category_aliases
Sweep_guess ==
  /\ sess[Background].pc = "guess"
  /\ \E r \in guess_category(sess[Background].row, BackgroundView) :
       BackgroundStep("guess_category", Head(sess[Background].ids),
                      [sess[Background] EXCEPT !.r = r, !.pc = "update"])
  /\ UNCHANGED db

\* the UPDATE cannot get the write lock
Blocked ==
  \/ sess[Main].in_tx
  \/ sess[Background].in_tx /\ sess[Background].snapped /\ sess[Background].stale

\* as Sweep_update, but the row selected earlier is written back whole
Sweep_update_writes_row ==
  /\ sess[Background].pc = "update"
  /\ ~Blocked
  /\ LET B == sess[Background]
         mid == Head(B.ids)
         material == categorized(mid, B.row, B.r)
     IN /\ db' = [db EXCEPT !.materials[mid] = material.row]
        /\ BackgroundStep("update", mid,
             NextMaterial([B EXCEPT !.results = Append(@, material),
                                    !.in_tx = FALSE, !.snapped = FALSE,
                                    !.snap = EmptyDb, !.stale = FALSE]))
\* UPDATE materials SET auto_category=?, auto_confidence=?, model_family=?, ...
\* WHERE id=?; commit; the dict is returned and appended to results
Sweep_update ==
  /\ sess[Background].pc = "update"
  /\ ~Blocked
  /\ LET B == sess[Background]
         mid == Head(B.ids)
     IN /\ db' = set_auto_category(db, mid, B.r.category, B.r.confidence, B.r.family)
        /\ BackgroundStep("update", mid,
             NextMaterial([B EXCEPT !.results = Append(@, categorized(mid, B.row, B.r)),
                                    !.in_tx = FALSE, !.snapped = FALSE,
                                    !.snap = EmptyDb, !.stale = FALSE]))

\* as Sweep_locked, but the exception ends the sweep
Sweep_locked_aborts ==
  /\ sess[Background].pc = "update"
  /\ Blocked
  /\ LET B == sess[Background]
         mid == Head(B.ids)
     IN BackgroundStep("locked", mid,
          [B EXCEPT !.failed = @ \cup {mid}, !.in_tx = TRUE, !.pc = "done",
                    !.visited = Append(@, mid), !.ids = Tail(@)])
  /\ UNCHANGED db
\* the UPDATE raises OperationalError: the busy timeout expired while the main
\* connection held the lock, or the snapshot is outdated; except Exception
\* logs it and the loop goes on, the transaction stays open
Sweep_locked ==
  /\ sess[Background].pc = "update"
  /\ Blocked
  /\ LET B == sess[Background]
         mid == Head(B.ids)
     IN BackgroundStep("locked", mid,
          NextMaterial([B EXCEPT !.failed = @ \cup {mid}, !.in_tx = TRUE]))
  /\ UNCHANGED db

NextSweep ==
  \/ Main_set_material_fields
  \/ Main_learn_category_alias
  \/ Main_transfer_serials_to_used
  \/ Main_commit
  \/ Sweep_select_ids
  \/ Sweep_select_row
  \/ Sweep_guess
  \/ Sweep_update
  \/ Sweep_locked

SpecSweep == InitSweep /\ [][NextSweep]_vars

\* ---------------------------------------------------------------------
\* Bulk insertion of serials into a store with two materials

\* the (name, model) of the second material (test_actions.py)
SwitchText == [name |-> "Switch", model |-> "TL-SG1005P"]

\* two customers and two materials, no serial yet
TwoMaterialsDb ==
  add_material(
    add_material(add_customer(add_customer(EmptyDb, "C001").db, "C002").db,
                 CHOOSE t \in MaterialTexts : TRUE, 0).db,
    SwitchText, 0).db

\* the material ids add_serials_to_material is called with: the two
\* materials and an id no material has
SerialMaterialIds == {1, 2, 3}

InitSerials ==
  /\ db = TwoMaterialsDb
  /\ call = NoCall
  /\ sess = [i \in Sessions |-> IdleSession]
  /\ guess = NoGuess
  /\ schema = MigratedSchema
  /\ boot = Opened

\* as Call_add_serials_to_material, the arguments kept with the outcome
Serials_add_serials_to_material ==
  \E m \in SerialMaterialIds, L \in BatchLists :
    Called([op |-> "add_serials_to_material", material_id |-> m, serials |-> L,
            ret |-> "ok"],
           add_serials_to_material(db, m, L))

NextSerials ==
  \/ Serials_add_serials_to_material
  \/ Call_assign_serial_to_customer
  \/ Call_delete_serials

SpecSerials == InitSerials /\ [][NextSerials]_vars

\* ---------------------------------------------------------------------
\* The customer window: serials are assigned and unassigned, and the history
\* of a customer is read (CustomerDetails calls get_customer_history)

\* most rows ever inserted in assignments before the history is read
MaxHistory == 3
\* last calendar day date('now') can return while the history grows
MaxHistoryDay == 2

InitHistory ==
  /\ db = ConcStartDb
  /\ call = NoCall
  /\ sess = [i \in Sessions |-> IdleSession]
  /\ guess = NoGuess
  /\ schema = MigratedSchema
  /\ boot = Opened

History_assign_serial_to_customer ==
  \E c \in CustomerIds, s \in SerialIds, day \in 1..MaxHistoryDay :
    LET r == assign_serial_to_customer(db, c, s, day)
    IN /\ r.ret = "ok"
       /\ db.seq < MaxHistory
       /\ Called([NoCall EXCEPT !.op = "assign_serial_to_customer", !.serial = s], r.db)

History_unassign_serial ==
  \E s \in SerialIds :
    \E D \in unassign_serial(db, s, FALSE) :
      Called([NoCall EXCEPT !.op = "unassign_serial", !.serial = s], D)

\* the list get_customer_history returned is kept with the call
History_get_customer_history ==
  \E c \in CustomerIds :
    Called([op |-> "get_customer_history", customer_id |-> c,
            ret |-> get_customer_history(db, c)], db)

NextHistory ==
  \/ History_assign_serial_to_customer
  \/ History_unassign_serial
  \/ History_get_customer_history

SpecHistory == InitHistory /\ [][NextHistory]_vars

\* ---------------------------------------------------------------------
\* Properties of the serial lifecycle (one connection)

ActiveRecords(D, serial) == {a \in D.assignments : a.serial = serial /\ a.deleted = 0}

RecordsOf(D, serial) == {a \in D.assignments : a.serial = serial}

IsAvailable(D, serial) ==
  serial \in DOMAIN D.serial_numbers /\ D.serial_numbers[serial].assigned_to = NULL

C2_AssignUnavailableFails ==
  \A c \in CustomerIds \cup {UnknownCustomer}, s \in SerialIds, day \in Days :
    ~IsAvailable(db, s) =>
      assign_serial_to_customer(db, c, s, day) = [db |-> db, ret |-> "ValueError"]

\* the last call was a refused assign of a serial that exists and is assigned
C2_Witness ==
  /\ call.op = "assign_serial_to_customer"
  /\ call.ret = "ValueError"
  /\ call.serial \in DOMAIN db.serial_numbers
  /\ db.serial_numbers[call.serial].assigned_to # NULL
  /\ ActiveRecords(db, call.serial) # {}

\* C3: for an available serial s and an existing customer c, assign followed by
\* a non-forced unassign leaves s.assigned_to null, keeps the record the assign
\* created with deleted=1, and makes the history of c one record longer.
C3_AssignUnassignRoundTrip ==
  \A c \in db.customers, s \in SerialIds, day \in Days :
    IsAvailable(db, s) =>
      LET assigned == assign_serial_to_customer(db, c, s, day)
      IN /\ assigned.ret = "ok"
         /\ \A D \in unassign_serial(assigned.db, s, FALSE) :
              /\ D.serial_numbers[s].assigned_to = NULL
              /\ \E a \in D.assignments :
                   /\ a.id = db.seq + 1
                   /\ a.customer_id = c
                   /\ a.serial = s
                   /\ a.deleted = 1
              /\ Len(get_customer_history(D, c)) = Len(get_customer_history(db, c)) + 1

\* the last call was a non-forced unassign of the serial of the newest record,
\* which is kept soft-deleted in its customer's history
C3_Witness ==
  /\ call.op = "unassign_serial"
  /\ ~call.force
  /\ IsAvailable(db, call.serial)
  /\ \E a \in db.assignments :
       /\ a.id = db.seq
       /\ a.serial = call.serial
       /\ a.deleted = 1
       /\ Len(get_customer_history(db, a.customer_id)) >= 1
  /\ \A m \in DOMAIN db.materials : db.materials[m].is_used = 0

\* C4: delete_serials(S) removes the serials of S from get_serials_by_material
\* and leaves the assignment records, hence every customer's history, as
\* they were.
C4_DeleteKeepsHistory ==
  \A L \in BatchLists :
    LET D == delete_serials(db, L)
    IN /\ \A m \in DOMAIN db.materials :
            get_serials_by_material(D, m, TRUE) \cap Range(L) = {}
       /\ D.assignments = db.assignments
       /\ \A c \in CustomerIds : get_customer_history(D, c) = get_customer_history(db, c)

\* C5: transfer_serials_to_used changes the assignment state of no serial
\* outside its argument list (a serial s1 assigned to c stays assigned to c with
\* its record non-deleted when another serial s2 of the same material is
\* transferred) and sets is_used of the material of every listed serial.
C5_TransferFrame ==
  \A L \in BatchLists, from_customer \in CustomerIds \cup {NULL} :
    \A D \in transfer_serials_to_used(db, L, from_customer) :
      /\ \A s \in DOMAIN db.serial_numbers \ Range(L) :
           /\ s \in DOMAIN D.serial_numbers
           /\ D.serial_numbers[s] = db.serial_numbers[s]
           /\ RecordsOf(D, s) = RecordsOf(db, s)
      /\ \A s \in DOMAIN db.serial_numbers \cap Range(L) :
           D.materials[db.serial_numbers[s].material_id].is_used = 1

\* after a transfer: a serial is still assigned with its record active while
\* its material, shared with an unassigned serial, is flagged used
C5_Witness ==
  /\ call.op = "transfer_serials_to_used"
  /\ \E s1, s2 \in DOMAIN db.serial_numbers :
       /\ s1 # s2
       /\ db.serial_numbers[s1].material_id = db.serial_numbers[s2].material_id
       /\ db.serial_numbers[s1].assigned_to \in CustomerIds
       /\ \E a \in ActiveRecords(db, s1) : a.customer_id = db.serial_numbers[s1].assigned_to
       /\ db.serial_numbers[s2].assigned_to = NULL
       /\ RecordsOf(db, s2) = {}
       /\ db.materials[db.serial_numbers[s1].material_id].is_used = 1

\* the partition resolve_serials_for_customer returns for the list L
ResolvePartitions(L) ==
  LET r == resolve_serials_for_customer(db, L)
  IN /\ Range(r.valid) \cap Range(r.invalid) = {}
     /\ Range(r.valid) \cup Range(r.invalid) = Range(L)
     /\ Range(r.valid) = {s \in Range(L) : IsAvailable(db, s)}
     /\ Range(r.invalid) = {s \in Range(L) : ~IsAvailable(db, s)}

\* C6: for every list L (duplicates allowed) and every store,
\* resolve_serials_for_customer(L) returns disjoint valid and invalid whose
\* union is the set of L, valid being the serials that exist with assigned_to
\* null and invalid the missing or assigned ones; the call leaves the store
\* as it was.
C6_ResolvePartition ==
  /\ [](\A L \in BatchLists : ResolvePartitions(L))
  /\ [][call'.op = "resolve_serials_for_customer" => db' = db]_vars

\* the last call resolved serials in a store holding an available, an assigned
\* and (SerialIds being larger than the table) possibly a missing serial
C6_Witness ==
  /\ call.op = "resolve_serials_for_customer"
  /\ \E s, t \in DOMAIN db.serial_numbers :
       /\ IsAvailable(db, s)
       /\ ~IsAvailable(db, t)
       /\ resolve_serials_for_customer(db, <<s, t, s>>) =
            [valid |-> <<s, s>>, invalid |-> <<t>>]

\* ---------------------------------------------------------------------
\* Properties of two connections working on the same file

\* connection i commits the transaction of the method op in this step
Commits(i, op) ==
  /\ sess[i].pc = "commit"
  /\ sess[i].op = op
  /\ sess[i].in_tx
  /\ ~sess'[i].in_tx
  /\ db' = sess[i].tx

\* C7: when two connections run assign_serial_to_customer for the same
\* available serial, whatever the interleaving of their availability checks
\* and writes, the check and the writes act as one unit: an assign commits
\* only if the serial is still available in the committed store (so at most
\* one of the two succeeds), and it leaves the serial with exactly one
\* non-deleted record, whose customer is the serial's assigned_to.
C7_ConcurrentAssignAtomic ==
  [][\A i \in Sessions :
       Commits(i, "assign_serial_to_customer") =>
         LET s == sess[i].serial
         IN /\ IsAvailable(db, s)
            /\ Cardinality(ActiveRecords(db', s)) = 1
            /\ \A a \in ActiveRecords(db', s) :
                 a.customer_id = db'.serial_numbers[s].assigned_to]_vars

\* C8: no commit publishes only some of the writes of a mutating operation:
\* a commit of assign_serial_to_customer publishes the new record together
\* with the serial's assigned_to, and a commit made while
\* transfer_serials_to_used runs publishes the unassignment of a serial
\* together with is_used=1 on its material.
C8_OperationsAtomic ==
  [][\A i \in Sessions :
       /\ Commits(i, "assign_serial_to_customer") =>
            \E a \in db'.assignments \ db.assignments :
              /\ a.serial = sess[i].serial
              /\ a.deleted = 0
              /\ db'.serial_numbers[a.serial].assigned_to = a.customer_id
       /\ Commits(i, "transfer_serials_to_used") =>
            \A s \in DOMAIN db.serial_numbers :
              (/\ db.serial_numbers[s].assigned_to # NULL
               /\ db'.serial_numbers[s].assigned_to = NULL)
                => db'.materials[db.serial_numbers[s].material_id].is_used = 1]_vars

\* ---------------------------------------------------------------------
\* Properties of the categorizer

\* the material of the scenario (smoke_test.py adds it)
SmokeMaterial == [name |-> "Camera 4MP", model |-> "DS-2CD2343G2-I"]

\* C9: with an empty alias table, guess_category classifies the material
\* {name: "Camera 4MP", model: "DS-2CD2343G2-I"} (no producer, no description)
\* as category "Camera" with confidence at least 0.6 and family "DS-2CD2343".
C9_CameraScenario ==
  DOMAIN db.category_aliases = {} =>
    \A r \in guess_category(SmokeMaterial, db) :
      /\ r.category = "Camera"
      /\ r.confidence >= 60
      /\ r.family = Chars["DS-2CD2343"]

\* C10: guess_category is deterministic: for every material text and every
\* alias table, all evaluations return the same (category, confidence,
\* family), also when categories share the highest score and when the score
\* comes from alias tokens only.
C10_GuessDeterministic ==
  \A material \in GuessInputs :
    Cardinality({<<r.category, r.confidence, r.family>> :
                   r \in guess_category(material, db)}) = 1

\* ---------------------------------------------------------------------
\* Schema set-up and seeding

\* the version the file stores; 0 while the schema_version row is absent
StoredVersion(S) == IF S.schema_version = <<>> THEN 0 ELSE get_schema_version(S)

AtLatestVersion(S) == StoredVersion(S) = Len(migrations)

\* the objects a migration adds to the file (schema_version exists before migration 1)
StepObjects(k) == Range(migrations[k]) \ {"schema_version"}

\* C11: once the file is at the latest version, no step of any start-up changes
\* its tables and indexes or its single schema_version row, and no migration
\* is run again
C11_ReopenIsNoOp ==
  [][AtLatestVersion(schema) =>
       /\ schema'.objects = schema.objects
       /\ schema'.schema_version = schema.schema_version
       /\ Len(schema.schema_version) = 1
       /\ boot'.applied \in {boot.applied, <<>>}]_vars

\* a second or later start-up has run to its end on a file at the latest
\* version and applied nothing
C11_Witness ==
  /\ boot.pc = "open"
  /\ boot.opens >= 2
  /\ boot.applied = <<>>
  /\ boot.version = Len(migrations)
  /\ AtLatestVersion(schema)

\* C12: in every start-up the migrations applied are those with a target above
\* the version read, each once and in increasing order, the version row exists
\* before the first of them runs, a start-up that ran to its end applied all of
\* them and left the version at 3, and the stored version never decreases
C12_MigrationsInOrder ==
  /\ [](/\ \A i \in DOMAIN boot.applied : boot.applied[i] > boot.version
        /\ \A i, j \in DOMAIN boot.applied : i < j => boot.applied[i] < boot.applied[j]
        /\ boot.applied # <<>> => schema.schema_version # <<>>
        /\ boot.pc = "open" =>
             /\ boot.applied = [i \in 1..(Len(migrations) - boot.version) |-> boot.version + i]
             /\ StoredVersion(schema) = Len(migrations))
  /\ [][StoredVersion(schema') >= StoredVersion(schema)]_vars

\* a start-up found version 1 stored, applied migrations 2 and 3 and ran to its end
C12_Witness ==
  /\ boot.pc = "open"
  /\ boot.version = 1
  /\ boot.applied = <<2, 3>>
  /\ StoredVersion(schema) = 3

\* C13: the committed file holds either none of a migration's objects, with the
\* version below its target, or all of them, with the version at or above it
C13_StepAllOrNothing ==
  \A k \in DOMAIN migrations :
    \/ StoredVersion(schema) < k /\ StepObjects(k) \cap schema.objects = {}
    \/ StoredVersion(schema) >= k /\ StepObjects(k) \subseteq schema.objects

\* C14: the default account is seeded at most once on a file
C14_SeededOnce == boot.seeds <= 1

\* ---------------------------------------------------------------------
\* Users

\* C15: a change of role or a deletion asked for another user in the Users tab
\* is let through exactly when the listed role of that user is strictly below
\* the role of the session, or the session holds admin1
C15_ManagePolicy ==
  (call.op \in {"_change_role", "_delete_user"} /\ call.username # call.current_username) =>
    (call.ret # "denied" <=>
       \/ _role_level(call.role) < _role_level(call.current_role)
       \/ call.current_role = "admin1")

\* C16: authenticate_user returns the username and stored role exactly when the
\* account exists and the password hashes, under the stored salt, to the stored
\* hash; every failure returns the same value, whether the username exists or
\* not; a login leaves the file as it was
C16_AuthenticateExactMatch ==
  /\ [](/\ \A u \in LoginNames, p \in Passwords :
             LET auth == authenticate_user(schema, u, p) IN
               /\ auth # None <=>
                    /\ u \in DOMAIN schema.users
                    /\ _hash_password(p, schema.users[u].salt) = schema.users[u].password_hash
               /\ auth # None => auth = [username |-> u, role |-> schema.users[u].role]
        /\ \A u1 \in LoginNames \ DOMAIN schema.users, u2 \in DOMAIN schema.users :
             \A p1, p2 \in Passwords :
               _hash_password(p2, schema.users[u2].salt) # schema.users[u2].password_hash =>
                 authenticate_user(schema, u1, p1) = authenticate_user(schema, u2, p2)
        /\ (call.op = "_do_login" /\ call.ret = "failed") => call.auth = None)
  /\ [][call'.op = "_do_login" => schema' = schema]_vars

\* a login with the wrong password for an existing account has just failed,
\* while another name has no account
C16_Witness ==
  /\ call.op = "_do_login"
  /\ call.ret = "failed"
  /\ call.username \in DOMAIN schema.users
  /\ LoginNames \ DOMAIN schema.users # {}

\* ---------------------------------------------------------------------
\* Scoring

\* the normalized text guess_category scores
TextOf(material) ==
  normalize(join(<<str(Get(material, "name")), str(Get(material, "model")),
                   str(Get(material, "producer")), str(Get(material, "description"))>>))

RECURSIVE SumWeights(_)
SumWeights(rules) ==
  IF rules = {} THEN 0
  ELSE LET i == CHOOSE i \in rules : TRUE
       IN CATEGORY_PATTERNS[i].weight + SumWeights(rules \ {i})

\* the weights of the rules of the category that match, plus the alias weight
\* for each distinct token of the text aliased to the category
TotalScore(text, cat, D) ==
  SumWeights({i \in DOMAIN CATEGORY_PATTERNS :
                CATEGORY_PATTERNS[i].cat = cat /\ search(CATEGORY_PATTERNS[i], text)})
  + AliasWeight * Cardinality({token \in Range(split(text)) :
                                 /\ token \in DOMAIN get_alias_map(D)
                                 /\ get_alias_map(D)[token] = cat})

AllCategories(D) ==
  {CATEGORY_PATTERNS[i].cat : i \in DOMAIN CATEGORY_PATTERNS} \cup Range(get_alias_map(D))

\* the normalised text, its distinct tokens and the rule weights per category
\* of every material the guesses are checked on
GuessTexts == [material \in GuessInputs |-> TextOf(material)]

GuessTokens == [material \in GuessInputs |-> Range(split(GuessTexts[material]))]

RuleCategories == {CATEGORY_PATTERNS[i].cat : i \in DOMAIN CATEGORY_PATTERNS}

RuleTotals ==
  [material \in GuessInputs |->
     [cat \in RuleCategories |-> TotalScore(GuessTexts[material], cat, EmptyDb)]]

\* C17: whatever the alias table, guess_category returns no category and
\* confidence 0 when no rule and no alias matched, and otherwise a category of
\* highest total score (the weights of its matching rules plus the alias
\* weight per distinct token aliased to it) with that score, capped at 1.0,
\* as confidence
C17_GuessScores ==
  LET alias_map == get_alias_map(db)
      cats == RuleCategories \cup Range(alias_map)
  IN \A material \in GuessInputs :
       LET total == [cat \in cats |->
                       (IF cat \in RuleCategories THEN RuleTotals[material][cat] ELSE 0)
                       + AliasWeight * Cardinality({token \in GuessTokens[material] :
                                                     /\ token \in DOMAIN alias_map
                                                     /\ alias_map[token] = cat})]
           best == IF \A cat \in cats : total[cat] = 0 THEN 0
                   ELSE CHOOSE n \in Range(total) : \A cat \in cats : total[cat] <= n
       IN \A r \in guess_category(material, db) :
            IF best = 0
            THEN r.category = NULL /\ r.confidence = 0
            ELSE /\ r.category \in cats
                 /\ total[r.category] = best
                 /\ r.confidence = IF best > MaxConfidence THEN MaxConfidence ELSE best
                 /\ r.confidence \in 1..MaxConfidence

\* guess_category returned Camera for "IPC Dome NVR4" on two rules and an
\* alias, 1.15 in all, with confidence 1.0
C17_Witness ==
  /\ guess.called
  /\ guess.material = [name |-> "IPC Dome", model |-> "NVR4"]
  /\ guess.result.category = "Camera"
  /\ TotalScore(TextOf(guess.material), "Camera", db) = 115
  /\ guess.result.confidence = MaxConfidence

\* the scores guess_category has accumulated when it picks the best category,
\* from the scores of the rules, the tokens in the order o and the aliases
ScoresOf(by_pattern, o, alias_map) == score_aliases(o, alias_map, by_pattern).scores

ScoreIn(scores, cat) == IF cat \in DOMAIN scores THEN scores[cat] ELSE 0

\* C18: the alias table never holds two entries for one lower-cased token; a
\* call of learn_category_alias leaves its token mapped to its category and
\* every other entry as it was; from then on guess_category adds the alias
\* weight of the token to that category and to no other
C18_AliasLastWriteWins ==
  /\ [](/\ \A t1, t2 \in DOMAIN db.category_aliases : lower(t1) = lower(t2) => t1 = t2
        /\ call.op = "learn_category_alias" =>
             LET key == lower(Chars[call.token])
                 alias_map == get_alias_map(db)
                 others == Restrict(alias_map, DOMAIN alias_map \ {key})
                 cats == AllCategories(db)
             IN \A material \in GuessInputs :
                  LET text == TextOf(material)
                      tokens == Range(split(text))
                      by_pattern == score_patterns(text, CATEGORY_PATTERNS, NoScores)
                  IN key \in tokens =>
                       \A o \in TokenOrders(tokens) :
                         LET with == ScoresOf(by_pattern, o, alias_map)
                             without == ScoresOf(by_pattern, o, others)
                         IN \A cat \in cats :
                              ScoreIn(with, cat) - ScoreIn(without, cat)
                              = IF cat = call.category THEN AliasWeight ELSE 0)
  /\ [][call'.op = "learn_category_alias" =>
          LET key == lower(Chars[call'.token]) IN
            /\ key \in DOMAIN get_alias_map(db')
            /\ get_alias_map(db')[key] = call'.category
            /\ DOMAIN get_alias_map(db') = DOMAIN get_alias_map(db) \cup {key}
            /\ \A k \in DOMAIN get_alias_map(db) \ {key} :
                 get_alias_map(db')[k] = get_alias_map(db)[k]]_vars

\* "κάμερα" was guessed as Camera on the alias camera alone; then the token,
\* written Camera, was learned for NVR and the table holds that single entry
C18_Witness ==
  /\ guess.called
  /\ guess.material = [name |-> "κάμερα"]
  /\ guess.result.category = "Camera"
  /\ guess.result.evidence = << <<"alias:", Chars["camera"]>> >>
  /\ call.op = "learn_category_alias"
  /\ call.token = "Camera"
  /\ call.category = "NVR"
  /\ get_alias_map(db) = [k \in {Chars["camera"]} |-> "NVR"]

\* ---------------------------------------------------------------------
\* Unassignment and transfer, record by record

\* C19: unassign_serial(s, force) on a serial with a non-deleted record marks
\* that one record deleted (force false) or removes that one record, making
\* the history of its customer one shorter (force true); without such a record
\* the assignments stay as they are; the pointer of s is null afterwards and
\* every other serial, and every other table, is as before
C19_UnassignExactlyOne ==
  \A s \in SerialIds, force \in BOOLEAN :
    \A E \in unassign_serial(db, s, force) :
      LET active == ActiveRecords(db, s) IN
        /\ active # {} =>
             \E a \in active :
               /\ E.assignments =
                    IF force THEN db.assignments \ {a}
                    ELSE (db.assignments \ {a}) \cup {[a EXCEPT !.deleted = 1]}
               /\ Len(get_customer_history(E, a.customer_id))
                    = Len(get_customer_history(db, a.customer_id)) - (IF force THEN 1 ELSE 0)
               /\ ~force => \E b \in E.assignments : b.id = a.id /\ b.deleted = 1
        /\ active = {} => E.assignments = db.assignments
        /\ DOMAIN E.serial_numbers = DOMAIN db.serial_numbers
        /\ \A t \in DOMAIN db.serial_numbers :
             E.serial_numbers[t] =
               IF t = s THEN [db.serial_numbers[t] EXCEPT !.assigned_to = NULL]
               ELSE db.serial_numbers[t]
        /\ E.customers = db.customers
        /\ E.materials = db.materials
        /\ E.category_aliases = db.category_aliases

\* unassign_serial(s, force=True) has just removed the only record there was
C19_Witness ==
  /\ call.op = "unassign_serial"
  /\ call.force
  /\ db.seq = 1
  /\ db.assignments = {}
  /\ call.serial \in DOMAIN db.serial_numbers
  /\ db.serial_numbers[call.serial].assigned_to = NULL

\* C20: transfer_serials_to_used(L, from_customer) soft-unassigns an existing
\* serial of L exactly when it is assigned and from_customer is unset or is its
\* holder: then its pointer is null and its records are all kept, deleted;
\* otherwise the serial and its records stay as they are, an assigned serial
\* still assigned with its record active; either way its material is flagged
\* used; a serial of L that does not exist is skipped and the others are
\* still processed
C20_TransferPerSerial ==
  \A L \in BatchLists, from_customer \in CustomerIds \cup {NULL} :
    /\ transfer_serials_to_used(db, L, from_customer) # {}
    /\ \A D \in transfer_serials_to_used(db, L, from_customer) :
         /\ DOMAIN D.serial_numbers = DOMAIN db.serial_numbers
         /\ \A s \in Range(L) \cap DOMAIN db.serial_numbers :
              LET holder == db.serial_numbers[s].assigned_to IN
                /\ IF holder # NULL /\ (from_customer = NULL \/ holder = from_customer)
                   THEN /\ D.serial_numbers[s].assigned_to = NULL
                        /\ ActiveRecords(D, s) = {}
                        /\ RecordsOf(D, s) = {[a EXCEPT !.deleted = 1] : a \in RecordsOf(db, s)}
                   ELSE /\ D.serial_numbers[s] = db.serial_numbers[s]
                        /\ RecordsOf(D, s) = RecordsOf(db, s)
                        /\ holder # NULL =>
                             \E a \in ActiveRecords(D, s) : a.customer_id = holder
                /\ D.materials[db.serial_numbers[s].material_id].is_used = 1

\* the transfer of the missing S002 and of S001 away from C002 has returned:
\* S001, held by C001, is still assigned with its record active, and the
\* material is flagged used
C20_Witness ==
  /\ call.op = "transfer_serials_to_used"
  /\ call.from_customer = "C002"
  /\ call.serials = <<"S002", "S001">>
  /\ DOMAIN db.serial_numbers = {"S001"}
  /\ db.serial_numbers["S001"].assigned_to = "C001"
  /\ \E a \in ActiveRecords(db, "S001") : a.customer_id = "C001"
  /\ db.materials[db.serial_numbers["S001"].material_id].is_used = 1

\* ---------------------------------------------------------------------
\* Properties of the customer history

\* the list holds every assignment record of the customer, once each, and no other
HoldsRecordsOf(h, D, customer_id) ==
  /\ Range(h) = {a \in D.assignments : a.customer_id = customer_id}
  /\ Len(h) = Cardinality(Range(h))

\* C23 as stated: get_customer_history(c) returns every record of c, deleted
\* ones included and none of another customer, later assignment dates first
\* and, among equal dates, in insertion order (the record inserted first
\* comes first)
C23_HistoryTiesInInsertionOrder ==
  \A c \in CustomerIds :
    LET h == get_customer_history(db, c)
    IN /\ HoldsRecordsOf(h, db, c)
       /\ \A i, j \in DOMAIN h :
            i < j => \/ h[i].assigned_date > h[j].assigned_date
                     \/ h[i].assigned_date = h[j].assigned_date /\ h[i].id < h[j].id

\* C23 amended: get_customer_history(c) returns every record of c, deleted
\* ones included and none of another customer, later assignment dates first
\* and, among equal dates, the record inserted last first (descending id)
C23_HistoryMostRecentFirst ==
  \A c \in CustomerIds :
    LET h == get_customer_history(db, c)
    IN /\ HoldsRecordsOf(h, db, c)
       /\ \A i, j \in DOMAIN h :
            i < j => \/ h[i].assigned_date > h[j].assigned_date
                     \/ h[i].assigned_date = h[j].assigned_date /\ h[i].id > h[j].id

\* the history read for C001 holds three records: two of the same day, the
\* later inserted of them first, after one of a later day; one is soft-deleted
\* and C002 has no record in it
C23_Witness ==
  /\ call.op = "get_customer_history"
  /\ call.customer_id = "C001"
  /\ Len(call.ret) = 3
  /\ call.ret[1].assigned_date > call.ret[2].assigned_date
  /\ call.ret[2].assigned_date = call.ret[3].assigned_date
  /\ call.ret[2].id > call.ret[3].id
  /\ \E i \in DOMAIN call.ret : call.ret[i].deleted = 1

\* ---------------------------------------------------------------------
\* Properties of the Users tab

TabOps == {"_add_user", "_change_role", "_delete_user"}

\* the accounts whose row differs between the user tables S and T
ChangedAccounts(S, T) ==
  {u \in DOMAIN S.users \cup DOMAIN T.users :
     \/ u \notin DOMAIN S.users
     \/ u \notin DOMAIN T.users
     \/ S.users[u] # T.users[u]}

\* the session's role is the stored role of the logged-in account
ActorRoleIsStored ==
  LoggedIn => /\ boot.current_username \in DOMAIN schema.users
              /\ schema.users[boot.current_username].role = boot.current_role

\* C26: the role the Users tab works with is the stored role of its actor;
\* when the actor is admin2 or admin3, every account an action of the tab
\* creates or re-roles ends with a level strictly below the actor's, and every
\* account it changes or deletes had a level strictly below the actor's; an
\* account gets the role admin1 only from an admin1 actor
C26_NoEscalation ==
  /\ []ActorRoleIsStored
  /\ [][call'.op \in TabOps =>
          \A u \in ChangedAccounts(schema, schema') :
            /\ boot.current_role \in {"admin2", "admin3"} =>
                 /\ u \in DOMAIN schema'.users =>
                      _role_level(schema'.users[u].role) < _role_level(boot.current_role)
                 /\ u \in DOMAIN schema.users =>
                      _role_level(schema.users[u].role) < _role_level(boot.current_role)
            /\ (/\ u \in DOMAIN schema'.users
                /\ schema'.users[u].role = "admin1"
                /\ (u \in DOMAIN schema.users => schema.users[u].role # "admin1"))
                 => boot.current_role = "admin1"]_vars

\* an admin2 has just raised a viewer to admin3
C26_Witness ==
  /\ call.op = "_change_role"
  /\ call.ret = "updated"
  /\ call.current_role = "admin2"
  /\ call.role = "viewer"
  /\ schema.users[call.username].role = "admin3"

\* C27: no change-role or delete action of the Users tab, whatever the role
\* of the actor, changes or removes the row of the logged-in account
C27_NoSelfManagement ==
  [][call'.op \in {"_change_role", "_delete_user"} =>
       /\ boot.current_username \in DOMAIN schema'.users
       /\ schema'.users[boot.current_username] = schema.users[boot.current_username]]_vars

\* an admin1 has selected its own row and asked to delete it: refused, the
\* row is still there
C27_Witness ==
  /\ call.op = "_delete_user"
  /\ call.ret = "own"
  /\ call.current_role = "admin1"
  /\ call.username = boot.current_username
  /\ call.username \in DOMAIN schema.users

Admins1(S) == {u \in DOMAIN S.users : S.users[u].role = "admin1"}

C30_DetailsFindsMaterial ==
  \A id \in DOMAIN db.materials :
    /\ id \in get_all_materials(db, NULL, NULL, NULL)
    /\ _load_material(db, id) = db.materials[id]

\* C29: after any sequence of lifecycle calls, failing ones included, every
\* serial belongs to an existing material, every non-null assigned_to names an
\* existing customer who is the customer of each non-deleted assignment record
\* of the serial (and there is one), and every assignment record names an
\* existing customer
C29_ReferentialConsistency ==
  /\ \A s \in DOMAIN db.serial_numbers :
       /\ db.serial_numbers[s].material_id \in DOMAIN db.materials
       /\ db.serial_numbers[s].assigned_to # NULL =>
            /\ db.serial_numbers[s].assigned_to \in db.customers
            /\ ActiveRecords(db, s) # {}
            /\ \A a \in ActiveRecords(db, s) :
                 a.customer_id = db.serial_numbers[s].assigned_to
  /\ \A a \in db.assignments : a.customer_id \in db.customers

\* S001 is assigned to C001, and the assignment of S002 to the unknown
\* customer has just been refused
C29_Witness ==
  /\ call.op = "assign_serial_to_customer"
  /\ call.ret = "IntegrityError"
  /\ call.serial = "S002"
  /\ DOMAIN db.serial_numbers = {"S001", "S002"}
  /\ db.serial_numbers["S001"].assigned_to = "C001"
  /\ db.serial_numbers["S002"].assigned_to = NULL

\* ---------------------------------------------------------------------
\* Properties of the bulk operations

C21_UsedIsOneWay ==
  [][\A m \in DOMAIN db.materials :
       db.materials[m].is_used = 1 =>
         /\ m \in DOMAIN db'.materials
         /\ db'.materials[m].is_used = 1]_vars

\* the material, flagged used by a transfer, has just been categorised: the
\* family is stored and the flag is still 1
C21_Witness ==
  /\ call.op = "autocategorize_material"
  /\ call.ret = "ok"
  /\ db.materials[1].is_used = 1
  /\ db.materials[1].model_family # NULL

\* the columns autocategorize_material writes (last_modified is not modelled)
AutoColumns == {"auto_category", "auto_confidence", "model_family"}

\* store E differs from store D at most in the AutoColumns of material m
OnlyAutoColumnsOf(D, E, m) ==
  /\ E.customers = D.customers
  /\ E.serial_numbers = D.serial_numbers
  /\ E.assignments = D.assignments
  /\ E.category_aliases = D.category_aliases
  /\ DOMAIN E.materials = DOMAIN D.materials
  /\ \A k \in DOMAIN D.materials :
       \A col \in DOMAIN D.materials[k] :
         (k # m \/ col \notin AutoColumns) => E.materials[k][col] = D.materials[k][col]

\* C22: guess_category performs no write to the store, and
\* autocategorize_material(m), run by the background sweep between the edits of
\* the main connection, changes only auto_category, auto_confidence and
\* model_family of material m: name, model, manual category and is_used of every
\* material, and all serials, assignments, customers and aliases stay as the
\* last commit left them.
C22_CategorizerFrame ==
  [][call'.session = "background" =>
       IF call'.op = "update" THEN OnlyAutoColumnsOf(db, db', call'.material_id)
       ELSE db' = db]_vars

\* the sweep has categorized material 1 from the row it selected before the
\* main connection renamed the material, and the new name is in the store
C22_Witness ==
  /\ call.session = "background"
  /\ call.op = "update"
  /\ call.material_id = 1
  /\ sess[Background].results[Len(sess[Background].results)].row.name = "IPC Dome"
  /\ db.materials[1].name = "DVR IPC"
  /\ db.materials[1].auto_category # NULL

\* the ids of the dicts in the result list
ResultIds(B) == {B.results[i].id : i \in DOMAIN B.results}

\* the sweep so far: every selected id is either still to visit or visited,
\* once; the results are the visited ids whose call did not raise, once each;
\* the sweep is over only when no id is left
SweepProgress(B) ==
  /\ Range(B.visited) \cup Range(B.ids) = B.selected
  /\ Len(B.visited) + Len(B.ids) = Cardinality(B.selected)
  /\ ResultIds(B) = Range(B.visited) \ B.failed
  /\ Len(B.results) = Cardinality(ResultIds(B))
  /\ B.pc = "done" => B.ids = <<>>

\* C25: batch_autocategorize visits every selected material once; a failure
\* while categorizing one material does not stop the sweep (the remaining
\* materials are still processed) and the result lists exactly the materials
\* that succeeded; with only_uncategorized=True the sweep selects only the
\* materials without a manual category and leaves every material that had a
\* manual category at that moment entirely unchanged.
C25_SweepToleratesFailures ==
  /\ [](sess[Background].pc # "idle" => SweepProgress(sess[Background]))
  /\ [][call'.session = "background" =>
         /\ call'.op = "select_ids" =>
              sess'[Background].selected =
                {m \in DOMAIN db.materials : db.materials[m].category = NULL}
         /\ \A m \in sess'[Background].manual :
              db'.materials[m] = db.materials[m]]_vars

\* the sweep is over: the first material failed on the locked store, the
\* second was categorized after it, the third was never selected
C25_Witness ==
  /\ sess[Background].pc = "done"
  /\ Len(sess[Background].visited) = 2
  /\ sess[Background].visited[1] \in sess[Background].failed
  /\ ResultIds(sess[Background]) = {sess[Background].visited[2]}
  /\ sess[Background].manual = {3}
  /\ db.materials[sess[Background].visited[2]].auto_category # NULL

====
